---------------------------- MODULE Spec2Model ----------------------------
(***************************************************************************)
(* A model of the core of breeze-emu: the SPC700 audio processor, its I/O  *)
(* window and its instructions (src/src/apu/mod.rs), the scheduler and    *)
(* the bus of the SNES (src/src/breeze_core/snes.rs), and the controller  *)
(* input (src/src/breeze_core/input.rs).                                   *)
(*                                                                         *)
(* The module holds several specifications over one set of variables.     *)
(* Each one composes the same actions with the input sets of one          *)
(* subsystem, and leaves the other subsystem's variables as constructed:  *)
(*   SpecMbox   the four-byte mailbox in both directions                   *)
(*   SpecTimer  the three timers and their read-and-clear registers        *)
(*   Spec       the scheduler: CPU, APU and PPU interleaved by debt        *)
(*   LiveSpec   Spec with the fairness of a running single thread          *)
(*   SpecIrq    the scheduler with the H/V interrupt enabled                *)
(*   SpecHdma   the scheduler with HDMA channels switched on and off       *)
(*   SpecMul, SpecDiv, SpecBus   the registers and the timing of the bus   *)
(*   SpecWram   the work RAM, its mirror and its port                      *)
(*   SpecPort   the work RAM port and its 17-bit address                   *)
(*   SpecVirq   the scheduler with the V interrupt at the end of a frame   *)
(*   SpecStack  the stack instructions of the SPC700                       *)
(*   SpecInput  the controller input and its recording modes               *)
(*   SpecRegs   the registers $f0-$ff of the SPC700                        *)
(*   SpecAlu    single instructions of the SPC700 and its construction     *)
(*   SpecBranch the branches of the SPC700 under the scheduler             *)
(***************************************************************************)
EXTENDS Integers, Sequences, FiniteSets, TLC

(***************************************************************************)
(* Bit helpers for unsigned bytes.  Mask is a power of two.                *)
(***************************************************************************)
TestBit(value, mask) == (value \div mask) % 2 = 1

(***************************************************************************)
(* Bounds of the model.                                                    *)
(***************************************************************************)
\* Number of distinct byte values the environment writes to a mailbox cell.
MaxData == 2
\* Total SPC700 cycles the timer specification runs for.
MaxApuCycles == 136

\* The byte values written to mailbox cells, in the order they are added.
DataSeq == <<0, 66, 153, 255>>
DataVals == {DataSeq[i] : i \in 1..MaxData}

(***************************************************************************)
(* Program constants of the SPC700.                                        *)
(***************************************************************************)
Ports == 0..3
TimerIds == 0..2
IoBase == 244               \* 0xf4: first of the four mailbox addresses
Timer01Period == 128
Timer2Period == 16

VARIABLES
    mem,            \* Spc700.mem, at the addresses the model writes
    io_vals,        \* Spc700.io_vals: bytes written by the main CPU
    timers,         \* Spc700.timers
    reg_dsp_addr,   \* Spc700.reg_dsp_addr
    apu_fault,      \* TRUE once a panic!/assert! of the SPC700 has fired
    ret,            \* what the last load / read_port returned, and to whom
    apu_cycles      \* SPC700 cycles executed so far (bounds SpecTimer)

apu_vars == <<mem, io_vals, timers, reg_dsp_addr, apu_fault, ret, apu_cycles>>

VARIABLES
    pc,             \* where Snes::render_frame stands: "idle" (not running),
                    \* "cpu" (loop top), "apu" / "ppu" (inside a drain loop)
    master_cy,      \* Snes.master_cy
    apu_master_cy_debt,     \* Snes.apu_master_cy_debt
    ppu_master_cy_debt,     \* Snes.ppu_master_cy_debt
    cpu_master_cy,  \* render_frame's local cpu_master_cy of the current pass
    frame_rendered, \* render_frame's local frame_rendered
    cy,             \* Peripherals.cy: I/O cycles accrued since the last CPU step
    nmien,          \* Peripherals.nmien ($4200)
    nmi,            \* Peripherals.nmi ($4210 flag)
    irq,            \* Peripherals.irq ($4211 flag)
    hdmaen,         \* Peripherals.hdmaen ($420c)
    htime,          \* Peripherals.htime ($4207/8)
    vtime,          \* Peripherals.vtime ($4209/a)
    memsel,         \* Peripherals.memsel ($420d)
    v_counter,      \* Ppu::v_counter()
    h_counter,      \* Ppu::h_counter()
    ppu_cycles,     \* sum of the cycles Ppu::update has returned
    cpu_nmi,        \* an NMI raised by Cpu::trigger_nmi waits for the CPU
    cpu_irq,        \* an IRQ raised by Cpu::trigger_irq waits for the CPU
    calls,          \* the calls the last step made on its collaborators
    renders,        \* calls of the render closure in this render_frame call
    render_failed,  \* the render closure has returned Err
    wai_only        \* every CPU step of this call has reported 0 cycles

snes_vars == <<pc, master_cy, apu_master_cy_debt, ppu_master_cy_debt,
               cpu_master_cy, frame_rendered, cy, nmien, nmi, irq, hdmaen,
               htime, vtime, memsel, v_counter, h_counter, ppu_cycles,
               cpu_nmi, cpu_irq, calls, renders, render_failed, wai_only>>

VARIABLES
    wrmpya,         \* Peripherals.wrmpya ($4202)
    wrmpyb,         \* Peripherals.wrmpyb ($4203)
    wrdiv,          \* Peripherals.wrdiv ($4204/5)
    rddiv,          \* Peripherals.rddiv ($4214/5)
    rdmpy,          \* Peripherals.rdmpy ($4216/7)
    bus_ret,        \* the byte the last Peripherals::load returned (-1: none yet)
    wram,           \* Peripherals.wram: the bytes that are not 0, by index
    wmaddl,         \* Peripherals.wmaddl ($2181)
    wmaddm,         \* Peripherals.wmaddm ($2182)
    wmaddh          \* Peripherals.wmaddh ($2183)

bus_vars == <<wrmpya, wrmpyb, wrdiv, rddiv, rdmpy, bus_ret,
              wram, wmaddl, wmaddm, wmaddh>>

VARIABLES
    input_mode,     \* Input.mode: the variant and the attached ports
    input_latch,    \* Input.latch
    auto_read_data, \* Input.auto_read_data ($4218-$421f)
    input_ret,      \* the byte the last Input::load returned (-1: none yet)
    input_fault     \* the message of the panic that has fired ("": none)

input_vars == <<input_mode, input_latch, auto_read_data, input_ret,
                input_fault>>

VARIABLES
    reg_a,          \* Spc700.a
    reg_x,          \* Spc700.x
    reg_y,          \* Spc700.y
    reg_sp,         \* Spc700.sp
    reg_pc,         \* Spc700.pc
    reg_psw,        \* Spc700.psw
    apu_cy          \* Spc700.cy: the cycles of the last instruction

core_vars == <<reg_a, reg_x, reg_y, reg_sp, reg_pc, reg_psw, apu_cy>>

vars == <<apu_vars, snes_vars, bus_vars, input_vars, core_vars>>

\* The RAM addresses of the outbound mailbox, $f4-$f7.
MemAddrs == 244..247

\* The RAM addresses the model keeps: two direct-page bytes of each page
\* ($10, $11, $110, $111), the I/O page $f0-$ff, the three bytes at either
\* end of the stack page ($100-$102, $1fd-$1ff), three bytes of program at
\* $200, and the byte below and the 64 bytes of the IPL area $ffc0-$ffff.
RAM_SIZE == 65536
IPL_START == RAM_SIZE - 64
RESET_VEC == 65534
ProgBase == 512
RamAddrs ==
    {16, 17, 272, 273} \cup (240..255) \cup (ProgBase..(ProgBase + 2))
    \cup (256..258) \cup (509..511)
    \cup ((IPL_START - 1)..(RAM_SIZE - 1))

\* The boot image (ipl.rs is not among the sources; the image is the
\* 64-byte boot ROM of the SPC700, whose last two bytes are $c0, $ff).
IPL_ROM ==
    <<205, 239, 189, 232,   0, 198,  29, 208, 252, 143, 170, 244, 143, 187, 245, 120,
      204, 244, 208, 251,  47,  25, 235, 244, 208, 252, 126, 244, 208,  11, 228, 245,
      203, 244, 215,   0, 252, 208, 243, 171,   1,  16, 239, 126, 244,  16, 235, 186,
      246, 218,   0, 186, 244, 196, 244, 221,  93, 208, 219,  31,   0,   0, 192, 255>>

(***************************************************************************)
(* Timer (timer.rs is not among the sources; modelled from the            *)
(* specification's timer model).                                           *)
(***************************************************************************)
Timer_new == [enabled |-> FALSE, div |-> 0, counter |-> 0, stage |-> 0, val |-> 0]

\* Writing the control bit from 0 to 1 resets the timer's internal state.
Timer_set_enable(t, enable) ==
    IF ~t.enabled /\ enable
    THEN [t EXCEPT !.enabled = TRUE, !.stage = 0, !.val = 0]
    ELSE [t EXCEPT !.enabled = enable]

\* The accumulator advances by cy; on reaching the period it is reduced by
\* it and, if the timer is enabled, the increment counter is compared with
\* the divider: on a match it is reset and the 4-bit out is bumped.
Timer_update(t, period, c) ==
    LET acc == t.counter + c IN
    IF acc < period THEN [t EXCEPT !.counter = acc]
    ELSE IF ~t.enabled THEN [t EXCEPT !.counter = acc - period]
    ELSE LET st == (t.stage + 1) % 256 IN
         IF st = t.div
         THEN [t EXCEPT !.counter = acc - period, !.stage = 0,
                        !.val = (t.val + 1) % 16]
         ELSE [t EXCEPT !.counter = acc - period, !.stage = st]

\* The value a load or read_port hands back: `by` is the reader ("load" is
\* the SPC700, "read_port" the main CPU).
NoRet == [by |-> "none", val |-> 0]
Returned(reader, value) == [by |-> reader, val |-> value]

(***************************************************************************)
(* Spc700::new                                                             *)
(***************************************************************************)
\* lines 62-65: the RAM is zero but for the boot image at its top.
new_mem ==
    [a \in RamAddrs |-> IF a >= IPL_START THEN IPL_ROM[a - IPL_START + 1] ELSE 0]

\* A slip a claim's check must notice: the reset vector is read high byte first.
new_pc_swapped(m) == m[RESET_VEC] * 256 + m[RESET_VEC + 1]

\* lines 67-69: the reset vector is a little-endian word.
new_pc(m) == m[RESET_VEC + 1] * 256 + m[RESET_VEC]

\* lines 59-86: a fresh SPC700, whatever the one before it held.
Spc700_new ==
    /\ mem' = new_mem
    /\ reg_dsp_addr' = 0
    /\ io_vals' = [p \in Ports |-> 0]
    /\ timers' = [i \in TimerIds |-> Timer_new]
    /\ reg_a' = 0
    /\ reg_x' = 0
    /\ reg_y' = 0
    /\ reg_sp' = 0
    /\ reg_pc' = new_pc(mem')
    /\ reg_psw' = 0
    /\ apu_cy' = 0
    /\ apu_fault' = FALSE
    /\ ret' = NoRet
    /\ apu_cycles' = 0

ApuInit ==
    /\ mem = new_mem
    /\ io_vals = [p \in Ports |-> 0]
    /\ timers = [i \in TimerIds |-> Timer_new]
    /\ reg_dsp_addr = 0
    /\ apu_fault = FALSE
    /\ ret = NoRet
    /\ apu_cycles = 0
    /\ reg_a = 0
    /\ reg_x = 0
    /\ reg_y = 0
    /\ reg_sp = 0
    /\ reg_pc = new_pc(mem)
    /\ reg_psw = 0
    /\ apu_cy = 0

(***************************************************************************)
(* Spc700::store_port and Spc700::read_port: the main CPU's side.          *)
(***************************************************************************)
\* A slip a claim's check must notice: the port index is mirrored.
store_port_vals_mirrored(port, value) == [io_vals EXCEPT ![3 - port] = value]

store_port_vals(port, value) == [io_vals EXCEPT ![port] = value]

store_port(port, value) ==
    /\ ~apu_fault
    /\ io_vals' = store_port_vals(port, value)
    /\ UNCHANGED <<mem, timers, reg_dsp_addr, apu_fault, ret, apu_cycles>>
    /\ UNCHANGED core_vars

\* A slip a claim's check must notice: the main CPU reads back its own byte.
read_port_val_unified(port) == io_vals[port]

read_port_val(port) == mem[IoBase + port]

read_port(port) ==
    /\ ~apu_fault
    /\ ret' = Returned("read_port", read_port_val(port))
    /\ UNCHANGED <<mem, io_vals, timers, reg_dsp_addr, apu_fault, apu_cycles>>

(***************************************************************************)
(* Spc700::load: the SPC700's own view of its address space.               *)
(***************************************************************************)
\* A slip a claim's check must notice: the write-only registers read as RAM.
load_faults_none(addr) == FALSE

load_faults(addr) == addr \in {240, 241, 250, 251, 252}

\* A slip a claim's check must notice: $f4-$f7 read as plain RAM.
load_val_unified(addr) ==
    CASE addr = 242 -> reg_dsp_addr
      [] addr = 253 -> timers[0].val
      [] addr = 254 -> timers[1].val
      [] addr = 255 -> timers[2].val
      [] OTHER -> mem[addr]

load_val(addr) ==
    CASE addr = 242 -> reg_dsp_addr
      [] addr \in 244..247 -> io_vals[addr - IoBase]
      [] addr = 253 -> timers[0].val
      [] addr = 254 -> timers[1].val
      [] addr = 255 -> timers[2].val
      [] OTHER -> mem[addr]

\* A slip a claim's check must notice: the out register read is not cleared.
load_timers_kept(addr) == timers

load_timers(addr) ==
    CASE addr = 253 -> [timers EXCEPT ![0].val = 0]
      [] addr = 254 -> [timers EXCEPT ![1].val = 0]
      [] addr = 255 -> [timers EXCEPT ![2].val = 0]
      [] OTHER -> timers

load(addr) ==
    /\ ~apu_fault
    /\ IF load_faults(addr)
       THEN /\ apu_fault' = TRUE
            /\ UNCHANGED <<ret, timers>>
       ELSE /\ ret' = Returned("load", load_val(addr))
            /\ timers' = load_timers(addr)
            /\ UNCHANGED apu_fault
    /\ UNCHANGED <<mem, io_vals, reg_dsp_addr, apu_cycles>>

(***************************************************************************)
(* Spc700::store                                                           *)
(***************************************************************************)
store_faults(addr, val) ==
    \/ addr = 240 /\ val # 10
    \/ addr \in 253..255

\* A slip a claim's check must notice: the two clear bits are swapped.
store_ctrl_io_swapped(val) ==
    [p \in Ports |->
        IF (p \in {2, 3} /\ TestBit(val, 16)) \/ (p \in {0, 1} /\ TestBit(val, 32))
        THEN 0 ELSE io_vals[p]]

\* $f1, bits 4 and 5: clear the inbound mailbox bytes 0-1 and 2-3.
store_ctrl_io(val) ==
    [p \in Ports |->
        IF (p \in {0, 1} /\ TestBit(val, 16)) \/ (p \in {2, 3} /\ TestBit(val, 32))
        THEN 0 ELSE io_vals[p]]

\* $f1, bits 0-2: enable the timers.
store_ctrl_timers(val) ==
    [i \in TimerIds |-> Timer_set_enable(timers[i], TestBit(val, 2 ^ i))]

store_mem(addr, val) == [mem EXCEPT ![addr] = val]

store(addr, val) ==
    /\ ~apu_fault
    /\ IF store_faults(addr, val)
       THEN /\ apu_fault' = TRUE
            /\ UNCHANGED <<mem, io_vals, timers, reg_dsp_addr>>
       ELSE /\ UNCHANGED apu_fault
            /\ CASE addr = 240 ->
                      UNCHANGED <<mem, io_vals, timers, reg_dsp_addr>>
                 [] addr = 241 ->
                      /\ timers' = store_ctrl_timers(val)
                      /\ io_vals' = store_ctrl_io(val)
                      /\ UNCHANGED <<mem, reg_dsp_addr>>
                 [] addr = 242 ->
                      /\ reg_dsp_addr' = val
                      /\ UNCHANGED <<mem, io_vals, timers>>
                 [] addr \in 250..252 ->
                      /\ timers' = [timers EXCEPT ![addr - 250].div = val]
                      /\ UNCHANGED <<mem, io_vals, reg_dsp_addr>>
                 [] OTHER ->
                      /\ mem' = store_mem(addr, val)
                      /\ UNCHANGED <<io_vals, timers, reg_dsp_addr>>
    /\ UNCHANGED <<ret, apu_cycles>>

(***************************************************************************)
(* The tail of Spc700::dispatch: the instruction's cycles advance the      *)
(* three timers.                                                           *)
(***************************************************************************)
timers_update(ts, c) ==
    [i \in TimerIds |->
        Timer_update(ts[i], IF i = 2 THEN Timer2Period ELSE Timer01Period, c)]

dispatch_timers(c) ==
    /\ ~apu_fault
    /\ apu_cycles' = apu_cycles + c
    /\ timers' = timers_update(timers, c)
    /\ UNCHANGED <<mem, io_vals, reg_dsp_addr, apu_fault, ret>>

(***************************************************************************)
(* StatusReg                                                               *)
(***************************************************************************)
NEG_FLAG == 128
OVERFLOW_FLAG == 64
DIRECT_PAGE_FLAG == 32
HALF_CARRY_FLAG == 8
ZERO_FLAG == 2
CARRY_FLAG == 1

\* StatusReg::set: the status byte p with the flag set to v.
StatusReg_set(p, flag, v) ==
    IF v THEN (IF TestBit(p, flag) THEN p ELSE p + flag)
    ELSE (IF TestBit(p, flag) THEN p - flag ELSE p)

set_nz(p, val) ==
    StatusReg_set(StatusReg_set(p, NEG_FLAG, val >= 128), ZERO_FLAG, val = 0)

(***************************************************************************)
(* Spc700::dispatch: one instruction.  The model executes the conditional  *)
(* branches, CMP, ADC and ROR, and faults on the opcodes dispatch does not *)
(* implement; the other implemented opcodes are not executed.              *)
(***************************************************************************)
CYCLE_TABLE ==
    << 2,  8,  4,  5,  3,  4,  3,  6,  2,  6,  5,  4,  5,  4,  6,  8,
       2,  8,  4,  5,  4,  5,  5,  6,  5,  5,  6,  5,  2,  2,  4,  6,
       2,  8,  4,  5,  3,  4,  3,  6,  2,  6,  5,  4,  5,  4,  5,  4,
       2,  8,  4,  5,  4,  5,  5,  6,  5,  5,  6,  5,  2,  2,  3,  8,
       2,  8,  4,  5,  3,  4,  3,  6,  2,  6,  4,  4,  5,  4,  6,  6,
       2,  8,  4,  5,  4,  5,  5,  6,  5,  5,  4,  5,  2,  2,  4,  3,
       2,  8,  4,  5,  3,  4,  3,  6,  2,  6,  4,  4,  5,  4,  5,  5,
       2,  8,  4,  5,  4,  5,  5,  6,  5,  5,  5,  5,  2,  2,  3,  6,
       2,  8,  4,  5,  3,  4,  3,  6,  2,  6,  5,  4,  5,  2,  4,  5,
       2,  8,  4,  5,  4,  5,  5,  6,  5,  5,  5,  5,  2,  2, 12,  5,
       3,  8,  4,  5,  3,  4,  3,  6,  2,  6,  4,  4,  5,  2,  4,  4,
       2,  8,  4,  5,  4,  5,  5,  6,  5,  5,  5,  5,  2,  2,  3,  4,
       3,  8,  4,  5,  4,  5,  4,  7,  2,  5,  6,  4,  5,  2,  4,  9,
       2,  8,  4,  5,  5,  6,  6,  7,  4,  5,  5,  5,  2,  2,  6,  3,
       2,  8,  4,  5,  3,  4,  3,  6,  2,  4,  5,  3,  4,  3,  4,  3,
       2,  8,  4,  5,  4,  5,  5,  6,  3,  4,  5,  4,  2,  2,  5,  3>>

\* lines 310-407: the opcodes that have an arm in dispatch.
Implemented ==
    {8, 16, 19, 28, 29, 31, 32, 40, 45, 47, 48, 51, 61, 63, 68, 72, 77, 83,
     92, 93, 94, 95, 96, 100, 104, 105, 107, 109, 111, 115, 117, 120, 125,
     126, 128, 132, 136, 141, 143, 144, 147, 162, 171, 172, 173, 175, 176,
     179, 186, 188, 189, 196, 197, 198, 200, 201, 203, 204, 205, 207, 208,
     211, 213, 214, 215, 218, 219, 221, 222, 228, 229, 230, 232, 235, 236,
     237, 238, 240, 243, 244, 245, 246, 252, 253, 254}

\* $f0 beq, $d0 bne, $b0 bcs, $90 bcc, $30 bmi, $10 bpl
RelBranches == {240, 208, 176, 144, 48, 16}
\* $13, $33, .. $f3: bbc d.0 .. d.7
BbcOps == {19 + 32 * bit : bit \in 0..7}
DbnzY == 254                \* $fe: dbnz y, rel
Cbne == 222                 \* $de: cbne [d+x], rel
CmpImmA == 104              \* $68: cmp a, #i
CmpDirectA == 100           \* $64: cmp a, d
CmpImmDirect == 120         \* $78: cmp d, #i
AdcImmA == 136              \* $88: adc a, #i
AdcDirectA == 132           \* $84: adc a, d
RorDirect == 107            \* $6b: ror d
CallAbs == 63               \* $3f: call !a
Ret == 111                  \* $6f: ret
PushA == 45                 \* $2d: push a
PushX == 77                 \* $4d: push x
PushY == 109                \* $6d: push y
PopY == 238                 \* $ee: pop y
StackOps == {CallAbs, Ret, PushA, PushX, PushY, PopY}
Executed ==
    RelBranches \cup BbcOps
    \cup {DbnzY, Cbne, CmpImmA, CmpDirectA, CmpImmDirect, AdcImmA, AdcDirectA,
          RorDirect}
    \cup StackOps

\* The operand bytes the addressing modes of the opcode fetch.
OperandBytes(op) ==
    IF op \in {Ret, PushA, PushX, PushY, PopY} THEN 0
    ELSE IF op \in BbcOps \cup {Cbne, CmpImmDirect, CallAbs} THEN 2 ELSE 1

\* fetchb: the k-th byte of the instruction at PC.
fetchb(k) == load_val(reg_pc + k)

\* AddressingMode (addressing.rs is not among the sources; modelled from
\* the specification's table of addressing modes).
direct_address(d) ==
    (IF TestBit(reg_psw, DIRECT_PAGE_FLAG) THEN 256 ELSE 0) + d
\* Rel: the signed offset r from the PC after the operand fetch.
rel_address(from, r) ==
    (from + 65536 + (IF r >= 128 THEN r - 256 ELSE r)) % 65536
\* IndexedIndirect: the word at Direct(d + X).
indexed_indirect_ptr(d) == direct_address((d + reg_x) % 256)
indexed_indirect_address(d) ==
    load_val(indexed_indirect_ptr(d) + 1) * 256 + load_val(indexed_indirect_ptr(d))

\* The addresses the operands of the instruction are loaded from.
Loads(op) ==
    CASE op \in BbcOps \cup {CmpDirectA, AdcDirectA, RorDirect} ->
            {direct_address(fetchb(1))}
      [] op = CmpImmDirect -> {direct_address(fetchb(2))}
      [] op = Cbne ->
            LET ptr == indexed_indirect_ptr(fetchb(1)) IN
            IF {ptr, ptr + 1} \subseteq RamAddrs
            THEN {ptr, ptr + 1, indexed_indirect_address(fetchb(1))}
            ELSE {ptr, ptr + 1}
      [] OTHER -> {}

\* The timers after the loads of the instruction (Spc700::load, $fd-$ff).
loads_timers(addrs) ==
    [i \in TimerIds |->
        IF 253 + i \in addrs THEN [timers[i] EXCEPT !.val = 0] ELSE timers[i]]

\* lines 539-582: the condition the branch opcode tests.
branch_cond(op) ==
    CASE op = 240 -> TestBit(reg_psw, ZERO_FLAG)
      [] op = 208 -> ~TestBit(reg_psw, ZERO_FLAG)
      [] op = 176 -> TestBit(reg_psw, CARRY_FLAG)
      [] op = 144 -> ~TestBit(reg_psw, CARRY_FLAG)
      [] op = 48 -> TestBit(reg_psw, NEG_FLAG)
      [] op = 16 -> ~TestBit(reg_psw, NEG_FLAG)

\* A slip a claim's check must notice: a taken branch costs nothing more.
branch_cycles_flat(base, taken) == base

\* A taken branch sets PC and adds 2 cycles.
branch_cycles(base, taken) == IF taken THEN base + 2 ELSE base
branch_pc(taken, from, r) == IF taken THEN rel_address(from, r) ELSE from

\* A slip a claim's check must notice: C is the absence of a borrow.
cmp_carry_borrow(a, b) == a >= b

\* lines 493-495: CMP.
cmp_diff(a, b) == (a + 256 - b) % 256
cmp_carry(a, b) == cmp_diff(a, b) >= 128
cmp_psw(a, b) ==
    StatusReg_set(set_nz(reg_psw, cmp_diff(a, b)), CARRY_FLAG, cmp_carry(a, b))

\* A slip a claim's check must notice: V is the carry out of bit 6.
adc_overflow_carry6(a, b, c) == (a % 128) + (b % 128) + c >= 128

\* lines 593-601: ADC.
adc_res(a, b, c) == (a + b + c) % 256
adc_overflow(a, b, c) ==
    /\ (a >= 128) = (b >= 128)
    /\ (a >= 128) # (adc_res(a, b, c) >= 128)
adc_psw(a, b, c) ==
    set_nz(
        StatusReg_set(
            StatusReg_set(
                StatusReg_set(reg_psw, CARRY_FLAG, a + b + c > 255),
                HALF_CARRY_FLAG, ((a % 16) + (b % 16) + c) \div 16 # 0),
            OVERFLOW_FLAG, adc_overflow(a, b, c)),
        adc_res(a, b, c))

\* lines 645-648: ROR; the rotated value sets N and Z and is dropped.
ror_res(val, c) == (val \div 2) + (IF c THEN 128 ELSE 0)
ror_psw(val, c) ==
    set_nz(StatusReg_set(reg_psw, CARRY_FLAG, val % 2 = 1), ror_res(val, c))

\* What the instruction leaves: the next PC, A, Y, the status and the cycles.
Outcome(p, a_new, y_new, s, c) ==
    [pc |-> p, a |-> a_new, y |-> y_new, psw |-> s, cy |-> c]

\* lines 308-412: the arm of the opcode.
Exec(op) ==
    LET base == CYCLE_TABLE[op + 1]
        next == reg_pc + 1 + OperandBytes(op)
        carry == IF TestBit(reg_psw, CARRY_FLAG) THEN 1 ELSE 0
    IN  CASE op \in RelBranches ->
                LET taken == branch_cond(op) IN
                Outcome(branch_pc(taken, next, fetchb(1)), reg_a, reg_y, reg_psw,
                        branch_cycles(base, taken))
          [] op \in BbcOps ->
                \* line 509: the branch is taken if the bit is set
                LET val == load_val(direct_address(fetchb(1)))
                    taken == TestBit(val, 2 ^ ((op - 19) \div 32))
                IN  Outcome(branch_pc(taken, next, fetchb(2)), reg_a, reg_y,
                            reg_psw, branch_cycles(base, taken))
          [] op = DbnzY ->
                \* lines 518-520: Y is decremented (a store to a register
                \* sets N and Z); the branch is taken if the result is 0
                LET res == (reg_y + 255) % 256
                    taken == res = 0
                IN  Outcome(branch_pc(taken, next, fetchb(1)), reg_a, res,
                            set_nz(reg_psw, res), branch_cycles(base, taken))
          [] op = Cbne ->
                LET val == load_val(indexed_indirect_address(fetchb(1)))
                    taken == val # reg_a
                IN  Outcome(branch_pc(taken, next, fetchb(2)), reg_a, reg_y,
                            reg_psw, branch_cycles(base, taken))
          [] op = CmpImmA ->
                Outcome(next, reg_a, reg_y, cmp_psw(fetchb(1), reg_a), base)
          [] op = CmpDirectA ->
                Outcome(next, reg_a, reg_y,
                        cmp_psw(load_val(direct_address(fetchb(1))), reg_a), base)
          [] op = CmpImmDirect ->
                Outcome(next, reg_a, reg_y,
                        cmp_psw(fetchb(1), load_val(direct_address(fetchb(2)))),
                        base)
          [] op = AdcImmA ->
                Outcome(next, adc_res(reg_a, fetchb(1), carry), reg_y,
                        adc_psw(reg_a, fetchb(1), carry), base)
          [] op = AdcDirectA ->
                LET b == load_val(direct_address(fetchb(1))) IN
                Outcome(next, adc_res(reg_a, b, carry), reg_y,
                        adc_psw(reg_a, b, carry), base)
          [] op = RorDirect ->
                LET val == load_val(direct_address(fetchb(1))) IN
                Outcome(next, reg_a, reg_y,
                        ror_psw(val, TestBit(reg_psw, CARRY_FLAG)), base)

\* A slip a claim's check must notice: the stack pointer is decremented
\* before the byte is stored.
pushb_addr_predecrement(sp) == 256 + ((sp + 255) % 256)

\* line 421: the address pushb stores to, 0x0100 | sp.
pushb_addr(sp) == 256 + sp

\* The stack while an instruction runs: the pointer, the RAM, the bytes
\* popped so far, and whether `self.sp -= 1` or `self.sp += 1` has
\* overflowed in a build that checks the arithmetic.
StackOf(sp, ram) == [sp |-> sp, mem |-> ram, vals |-> <<>>, fault |-> FALSE]

\* lines 420-425: the byte is stored, then the pointer goes down.  At
\* sp = 0 the subtraction overflows: a build with overflow checks panics,
\* the others wrap to $ff.
pushb(st, b, wraps) ==
    IF st.fault THEN st
    ELSE [st EXCEPT !.mem = [st.mem EXCEPT ![pushb_addr(st.sp)] = b],
                    !.sp = IF st.sp = 0 THEN (IF wraps THEN 255 ELSE 0)
                           ELSE st.sp - 1,
                    !.fault = (st.sp = 0 /\ ~wraps)]

\* lines 428-433: the high byte, then the low byte.
pushw(st, w, wraps) == pushb(pushb(st, w \div 256, wraps), w % 256, wraps)

\* lines 435-439: the pointer goes up, then the byte is loaded.  At
\* sp = $ff the addition overflows.
popb(st, wraps) ==
    IF st.fault THEN st
    ELSE IF st.sp = 255 /\ ~wraps THEN [st EXCEPT !.fault = TRUE]
    ELSE LET sp == (st.sp + 1) % 256 IN
         [st EXCEPT !.sp = sp, !.vals = Append(st.vals, st.mem[256 + sp])]

\* lines 442-446: the low byte, then the high byte.
popw(st, wraps) == popb(popb(st, wraps), wraps)

\* lines 458-474: what push, pop, ret and call do to the stack; next is
\* the PC behind the instruction.
exec_stack(op, next, wraps) ==
    LET st == StackOf(reg_sp, mem) IN
    CASE op = PushA -> pushb(st, reg_a, wraps)
      [] op = PushX -> pushb(st, reg_x, wraps)
      [] op = PushY -> pushb(st, reg_y, wraps)
      [] op = PopY -> popb(st, wraps)
      [] op = CallAbs -> pushw(st, next, wraps)
      [] op = Ret -> popw(st, wraps)

\* The bytes of the stack page the instruction stores to or loads from.
StackAddrs(op) ==
    CASE op \in {PushA, PushX, PushY} -> {256 + reg_sp}
      [] op = CallAbs -> {256 + reg_sp, 256 + ((reg_sp + 255) % 256)}
      [] op = PopY -> {256 + ((reg_sp + 1) % 256)}
      [] op = Ret -> {256 + ((reg_sp + 1) % 256), 256 + ((reg_sp + 2) % 256)}
      [] OTHER -> {}

\* lines 367-373: an instruction on the stack.  pop stores to Y, and a
\* store to a register sets N and Z.
dispatch_stack(op, wraps) ==
    LET next == reg_pc + 1 + OperandBytes(op)
        st == exec_stack(op, next, wraps)
    IN  /\ mem' = st.mem
        /\ reg_sp' = st.sp
        /\ apu_cy' = CYCLE_TABLE[op + 1]
        /\ IF st.fault
           THEN /\ apu_fault' = TRUE
                /\ reg_pc' = next
                /\ UNCHANGED <<io_vals, timers, reg_dsp_addr, ret, apu_cycles,
                               reg_a, reg_x, reg_y, reg_psw>>
           ELSE /\ reg_pc' = CASE op = CallAbs -> fetchb(2) * 256 + fetchb(1)
                                [] op = Ret -> st.vals[2] * 256 + st.vals[1]
                                [] OTHER -> next
                /\ reg_y' = IF op = PopY THEN st.vals[1] ELSE reg_y
                /\ reg_psw' = IF op = PopY THEN set_nz(reg_psw, st.vals[1])
                              ELSE reg_psw
                /\ timers' = timers_update(timers, apu_cy')
                /\ ret' = Returned("dispatch", apu_cy')
                /\ apu_cycles' = apu_cycles + apu_cy'
                /\ UNCHANGED <<io_vals, reg_dsp_addr, apu_fault, reg_a, reg_x>>

\* A panic inside dispatch: PC stands behind the bytes fetched and cy holds
\* the table's count (line 307); nothing is returned.
dispatch_panic(op, fetched) ==
    /\ apu_fault' = TRUE
    /\ reg_pc' = reg_pc + fetched
    /\ apu_cy' = CYCLE_TABLE[op + 1]
    /\ UNCHANGED <<mem, io_vals, timers, reg_dsp_addr, ret, apu_cycles,
                   reg_a, reg_x, reg_y, reg_sp, reg_psw>>

\* A slip a claim's check must notice: an opcode without an arm is skipped
\* as an instruction of its table's cycles.
dispatch_ill_skipped(op) ==
    /\ reg_pc' = reg_pc + 1
    /\ apu_cy' = CYCLE_TABLE[op + 1]
    /\ timers' = timers_update(timers, apu_cy')
    /\ ret' = Returned("dispatch", apu_cy')
    /\ apu_cycles' = apu_cycles + apu_cy'
    /\ UNCHANGED <<mem, io_vals, reg_dsp_addr, apu_fault,
                   reg_a, reg_x, reg_y, reg_sp, reg_psw>>

\* lines 408-411: an opcode without an arm.
dispatch_ill(op) == dispatch_panic(op, 1)

\* lines 236-418.  The instruction lies in the RAM the model keeps, and so
\* do its operands.
Spc700_dispatch ==
    /\ ~apu_fault
    /\ reg_pc \in RamAddrs
    /\ LET op == fetchb(0) IN
       IF op \notin Implemented
       THEN dispatch_ill(op)
       ELSE /\ op \in Executed
            /\ (reg_pc + 1)..(reg_pc + OperandBytes(op)) \subseteq RamAddrs
            /\ Loads(op) \subseteq RamAddrs
            /\ StackAddrs(op) \subseteq RamAddrs
            /\ IF \E addr \in Loads(op) : load_faults(addr)
               THEN dispatch_panic(op, 1 + OperandBytes(op))
               ELSE IF op \in StackOps
               THEN \E wraps \in BOOLEAN : dispatch_stack(op, wraps)
               ELSE LET e == Exec(op) IN
                    /\ reg_pc' = e.pc
                    /\ reg_a' = e.a
                    /\ reg_y' = e.y
                    /\ reg_psw' = e.psw
                    /\ apu_cy' = e.cy
                    /\ timers' = timers_update(loads_timers(Loads(op)), apu_cy')
                    /\ ret' = Returned("dispatch", apu_cy')
                    /\ apu_cycles' = apu_cycles + apu_cy'
                    /\ UNCHANGED <<mem, io_vals, reg_dsp_addr, apu_fault,
                                   reg_x, reg_sp>>

(***************************************************************************)
(* Peripherals: the bus of the main CPU (snes.rs).                         *)
(***************************************************************************)
CPU_CYCLE == 6
APU_DIVIDER == 21

Max(a, b) == IF a >= b THEN a ELSE b

(***************************************************************************)
(* The controller input (input.rs).                                        *)
(***************************************************************************)
\* lines 62-66: the variants of InputMode.  Normal and Recorded own the two
\* controller ports (TRUE: something is plugged in); Replayed owns none.
NoPorts == <<FALSE, FALSE>>
Normal(ports) == [kind |-> "Normal", ports |-> ports]
Recorded(ports) == [kind |-> "Recorded", ports |-> ports]
Replayed == [kind |-> "Replayed", ports |-> NoPorts]

\* lines 68-72: InputMode::default.
InputMode_default == Normal(NoPorts)

\* lines 74-84: Input::default.
InputInit ==
    /\ input_mode = InputMode_default
    /\ input_latch = FALSE
    /\ auto_read_data = [i \in 0..7 |-> 0]
    /\ input_ret = -1
    /\ input_fault = ""

\* A slip a claim's check must notice: the input never reports that it is
\* recording.
is_recording_blind(mode) == FALSE

\* lines 124-129.
is_recording(mode) == mode.kind = "Recorded"

\* lines 131-136.
is_replaying(mode) == mode.kind = "Replayed"

\* A panic of the input: the message is kept and nothing runs after it.
InputPanics(msg, mode) ==
    /\ input_fault' = msg
    /\ input_mode' = mode
    /\ UNCHANGED <<input_latch, auto_read_data, input_ret>>

\* lines 92-102: start_recording.  The two assertions come first; the mode
\* is then swapped for the default and matched.
Input_start_recording ==
    /\ input_fault = ""
    /\ IF is_recording(input_mode)
       THEN InputPanics("already recording", input_mode)
       ELSE IF is_replaying(input_mode)
       THEN InputPanics("cannot record while already replaying", input_mode)
       ELSE CASE input_mode.kind = "Normal" ->
                   /\ input_mode' = Recorded(input_mode.ports)
                   /\ UNCHANGED <<input_latch, auto_read_data, input_ret,
                                  input_fault>>
              [] input_mode.kind = "Recorded" ->
                   InputPanics("already recording", InputMode_default)
              [] input_mode.kind = "Replayed" ->
                   InputPanics("cannot record while already replaying",
                               InputMode_default)

\* lines 106-111: start_replay.
Input_start_replay ==
    /\ input_fault = ""
    /\ IF is_replaying(input_mode)
       THEN InputPanics("already replaying", input_mode)
       ELSE IF is_recording(input_mode)
       THEN InputPanics("cannot start a replay while recording input",
                        input_mode)
       ELSE /\ input_mode' = Replayed
            /\ UNCHANGED <<input_latch, auto_read_data, input_ret,
                           input_fault>>

\* lines 116-122: unwrap_ports, through which the frontend plugs
\* peripherals in and out.
Input_unwrap_ports(ports) ==
    /\ input_fault = ""
    /\ IF input_mode.kind = "Replayed"
       THEN InputPanics("called Input::unwrap_ports while replaying",
                        input_mode)
       ELSE /\ input_mode' = [input_mode EXCEPT !.ports = ports]
            /\ UNCHANGED <<input_latch, auto_read_data, input_ret,
                           input_fault>>

\* lines 149-163 and 248-255: whether read_port panics: a replay has no
\* port to read, and recording a bit is not implemented.
read_port_panics(mode) == mode.kind \in {"Replayed", "Recorded"}

\* lines 152-156: the two data lines of a port; nothing attached reads 0.
PortData(mode, port) ==
    IF mode.ports[port + 1] THEN BOOLEAN \X BOOLEAN ELSE {<<FALSE, FALSE>>}

Bit(b) == IF b THEN 1 ELSE 0

\* lines 166-189: Input::load.
Input_load(reg) ==
    /\ input_fault = ""
    /\ IF reg \in {16406, 16407}
       THEN IF read_port_panics(input_mode)
            THEN InputPanics("not yet implemented", input_mode)
            ELSE \E data \in PortData(input_mode, reg - 16406) :
                   /\ input_ret' = Bit(data[1]) + 2 * Bit(data[2])
                                     + (IF reg = 16407 THEN 28 ELSE 0)
                   /\ UNCHANGED <<input_mode, input_latch, auto_read_data,
                                  input_fault>>
       ELSE IF reg \in 16920..16927
       THEN /\ input_ret' = auto_read_data[reg - 16920]
            /\ UNCHANGED <<input_mode, input_latch, auto_read_data,
                           input_fault>>
       ELSE InputPanics("is not an input register", input_mode)

\* lines 191-208: Input::store.
Input_store(reg, val) ==
    /\ input_fault = ""
    /\ IF reg = 16406
       THEN /\ input_latch' = (val % 2 # 0)
            /\ UNCHANGED <<input_mode, auto_read_data, input_ret, input_fault>>
       ELSE InputPanics("invalid input reg store", input_mode)

\* The 16 bits a data line delivers during an automatic read.
Hi(w) == w \div 256
Lo(w) == w % 256

\* lines 213-245: perform_auto_read.  The latch is pulsed, then each line
\* of each port is read 16 times, the high byte first.
Input_perform_auto_read(words) ==
    /\ input_fault = ""
    /\ input_latch' = FALSE
    /\ IF read_port_panics(input_mode)
       THEN /\ input_fault' = "not yet implemented"
            /\ UNCHANGED <<input_mode, auto_read_data, input_ret>>
       ELSE /\ \A i \in 1..4 :
                 ~input_mode.ports[((i - 1) \div 2) + 1] => words[i] = 0
            /\ auto_read_data' =
                 [i \in 0..7 |->
                    CASE i = 0 -> Lo(words[1]) [] i = 1 -> Hi(words[1])
                      [] i = 4 -> Lo(words[2]) [] i = 5 -> Hi(words[2])
                      [] i = 2 -> Lo(words[3]) [] i = 3 -> Hi(words[3])
                      [] i = 6 -> Lo(words[4]) [] i = 7 -> Hi(words[4])]
            /\ UNCHANGED <<input_mode, input_ret, input_fault>>

\* Peripherals::new, Snes::new and Ppu::default (counters at the origin).
SnesInit ==
    /\ pc = "idle"
    /\ master_cy = 0
    /\ apu_master_cy_debt = 0
    /\ ppu_master_cy_debt = 0
    /\ cpu_master_cy = 0
    /\ frame_rendered = FALSE
    /\ cy = 0
    /\ nmien = 0
    /\ nmi = FALSE
    /\ irq = FALSE
    /\ hdmaen = 0
    /\ htime = 511
    /\ vtime = 511
    /\ memsel = FALSE
    /\ v_counter = 0
    /\ h_counter = 0
    /\ ppu_cycles = 0
    /\ cpu_nmi = FALSE
    /\ cpu_irq = FALSE
    /\ calls = {}
    /\ renders = 0
    /\ render_failed = FALSE
    /\ wai_only = TRUE
    /\ wrmpya = 255
    /\ wrmpyb = 0
    /\ wrdiv = 65535
    /\ rddiv = 0
    /\ rdmpy = 0
    /\ bus_ret = -1
    /\ wram = [i \in {} |-> 0]
    /\ wmaddl = 0
    /\ wmaddm = 0
    /\ wmaddh = 0
    /\ InputInit

\* The machine after construction.
Init == ApuInit /\ SnesInit

nmi_enabled == TestBit(nmien, 128)
v_irq_enabled == TestBit(nmien, 16)
h_irq_enabled == TestBit(nmien, 32)

\* A slip a claim's check must notice: the cost depends on the cycles
\* accrued so far.
io_penalty_accrued(bank, addr) == IF cy = 0 THEN 2 ELSE 0

\* A slip a claim's check must notice: the fastROM flag is applied to every
\* bank.
io_penalty_memsel(bank, addr) == IF memsel THEN 0 ELSE 2

\* Peripherals::do_io_cycle: the master cycles one access to bank:addr costs.
io_penalty(bank, addr) ==
    CASE bank \in 0..63 ->
            IF addr \in 0..8191 \/ addr \in 24576..65535 THEN 2
            ELSE IF addr \in 16384..16895 THEN 6
            ELSE 0
      [] bank \in 64..127 -> 2
      [] bank \in 128..191 ->
            IF addr \in 0..8191 \/ addr \in 24576..32767 THEN 2
            ELSE IF addr \in 16384..16895 THEN 6
            ELSE IF addr \in 32768..65535 THEN (IF memsel THEN 0 ELSE 2)
            ELSE 0
      [] bank \in 192..255 -> IF memsel THEN 0 ELSE 2
      [] OTHER -> 0

\* One access of the main CPU to the bus: none, a load or a store.
NoAccess == [kind |-> "none", bank |-> 0, addr |-> 0, value |-> 0]
BusLoad(b, a) == [kind |-> "load", bank |-> b, addr |-> a, value |-> 0]
BusStore(b, a, x) == [kind |-> "store", bank |-> b, addr |-> a, value |-> x]

\* The banks whose low half holds the system registers.
SysBank(bank) == bank \in 0..63 \/ bank \in 128..191
IsLoad(op, a) == op.kind = "load" /\ SysBank(op.bank) /\ op.addr = a
IsStore(op, a) == op.kind = "store" /\ SysBank(op.bank) /\ op.addr = a

\* The addresses of the system banks that Peripherals::store has an arm for.
StoreMapped(addr) ==
    \/ addr \in 0..8191            \* $0000-$1fff
    \/ addr \in 8448..8703         \* $2100-$21ff
    \/ addr = 16406                \* $4016
    \/ addr \in 16896..16909       \* $4200-$420d
    \/ addr \in 17152..17407       \* $4300-$43ff
    \/ addr \in 32768..65535       \* $8000-$ffff

\* The panics of Peripherals::store: the asserts on the high byte of HTIME
\* and of VTIME, which holds one bit, and the store no arm takes.  A panic
\* ends the emulator.
bus_panics(op) ==
    \/ (IsStore(op, 16904) \/ IsStore(op, 16906)) /\ op.value > 1
    \/ op.kind = "store" /\ SysBank(op.bank) /\ ~StoreMapped(op.addr)

\* The work RAM: 128 KiB, all 0 after construction.  The variable holds
\* the bytes that are not 0.
WRAM_SIZE == 131072
wram_get(w, i) == IF i \in DOMAIN w THEN w[i] ELSE 0
wram_put(w, i, value) ==
    [j \in (IF value = 0 THEN DOMAIN w \ {i} ELSE DOMAIN w \cup {i}) |->
        IF j = i THEN value ELSE w[j]]

\* lines 162-164: the address behind the port $2180.
wram_addr == wmaddh * 65536 + wmaddm * 256 + wmaddl

\* The access goes through the port $2180.
IsWramPort(op) == op.kind # "none" /\ SysBank(op.bank) /\ op.addr = 8576

\* A slip a claim's check must notice: each of the 256 banks has 8 KiB of
\* its own (folded into the 128 KiB) instead of the mirror.
WramIndex_banked(op) ==
    IF op.kind = "none" THEN -1
    ELSE IF SysBank(op.bank) /\ op.addr \in 0..8191
    THEN (op.bank * 8192 + op.addr) % WRAM_SIZE
    ELSE IF IsWramPort(op) THEN wram_addr
    ELSE IF op.bank \in {126, 127} THEN (op.bank - 126) * 65536 + op.addr
    ELSE -1

\* lines 180, 191, 238, 248, 256, 319: the index of the byte of work RAM
\* the access op reads or writes; -1 if it is not to work RAM.
WramIndex(op) ==
    IF op.kind = "none" THEN -1
    ELSE IF SysBank(op.bank) /\ op.addr \in 0..8191 THEN op.addr
    ELSE IF IsWramPort(op) THEN wram_addr
    ELSE IF op.bank \in {126, 127} THEN (op.bank - 126) * 65536 + op.addr
    ELSE -1

bus_wram(op) ==
    IF op.kind = "store" /\ WramIndex(op) >= 0
    THEN wram_put(wram, WramIndex(op), op.value)
    ELSE wram

\* A slip a claim's check must notice: WMADDH keeps every bit of the byte
\* stored to it.
bus_wmaddh_unmasked(op) ==
    IF IsStore(op, 8579) THEN op.value
    ELSE IF IsWramPort(op) THEN ((wram_addr + 1) \div 65536) % 2
    ELSE wmaddh

\* lines 166-169 and 258-260: the address registers of the port.
bus_wmaddl(op) ==
    IF IsStore(op, 8577) THEN op.value
    ELSE IF IsWramPort(op) THEN (wram_addr + 1) % 256
    ELSE wmaddl
bus_wmaddm(op) ==
    IF IsStore(op, 8578) THEN op.value
    ELSE IF IsWramPort(op) THEN ((wram_addr + 1) \div 256) % 256
    ELSE wmaddm
bus_wmaddh(op) ==
    IF IsStore(op, 8579) THEN op.value % 2
    ELSE IF IsWramPort(op) THEN ((wram_addr + 1) \div 65536) % 2
    ELSE wmaddh

\* dma::do_dma returns the cycles the transfer took.
dma_cycles(channels) == IF channels = 0 THEN 0 ELSE 24

\* Peripherals::load and Peripherals::store, register by register: the
\* value each register holds after the access op.
bus_cy(op) ==
    IF op.kind = "none" THEN cy
    ELSE cy + io_penalty(op.bank, op.addr)
            + (IF IsStore(op, 16907) THEN dma_cycles(op.value) ELSE 0)
bus_nmien(op) == IF IsStore(op, 16896) THEN op.value ELSE nmien
bus_nmi(op) == IF IsLoad(op, 16912) THEN FALSE ELSE nmi
bus_irq(op) == IF IsLoad(op, 16913) THEN FALSE ELSE irq
bus_hdmaen(op) == IF IsStore(op, 16908) THEN op.value ELSE hdmaen
bus_memsel(op) == IF IsStore(op, 16909) THEN TestBit(op.value, 1) ELSE memsel
bus_htime(op) ==
    CASE IsStore(op, 16903) -> (htime \div 256) * 256 + op.value
      [] IsStore(op, 16904) -> op.value * 256 + (htime % 256)
      [] OTHER -> htime
bus_vtime(op) ==
    CASE IsStore(op, 16905) -> (vtime \div 256) * 256 + op.value
      [] IsStore(op, 16906) -> op.value * 256 + (vtime % 256)
      [] OTHER -> vtime
bus_wrmpya(op) == IF IsStore(op, 16898) THEN op.value ELSE wrmpya
bus_wrmpyb(op) == IF IsStore(op, 16899) THEN op.value ELSE wrmpyb
bus_wrdiv(op) ==
    CASE IsStore(op, 16900) -> (wrdiv \div 256) * 256 + op.value
      [] IsStore(op, 16901) -> op.value * 256 + (wrdiv % 256)
      [] OTHER -> wrdiv
\* A slip a claim's check must notice: the quotient register takes the
\* remainder.
bus_rddiv_remainder(op) ==
    IF IsStore(op, 16902)
    THEN (IF op.value = 0 THEN 65535 ELSE wrdiv % op.value)
    ELSE rddiv
bus_rddiv(op) ==
    IF IsStore(op, 16902)
    THEN (IF op.value = 0 THEN 65535 ELSE wrdiv \div op.value)
    ELSE rddiv
\* A slip a claim's check must notice: the product is cut to a byte.
mul_truncated(a, b) == (a * b) % 256
\* line 285: the product of two bytes, as an unsigned 16-bit number.
mul(a, b) == (a * b) % 65536
bus_rdmpy(op) ==
    CASE IsStore(op, 16899) -> mul(wrmpya, op.value)
      [] IsStore(op, 16902) ->
            (IF op.value = 0 THEN op.value ELSE wrdiv % op.value)
      [] OTHER -> rdmpy
\* A store to $2140-$217f is a store to a port of the SPC700.
bus_io_vals(op) ==
    IF op.kind = "store" /\ SysBank(op.bank) /\ op.addr \in 8512..8575
    THEN store_port_vals(op.addr % 4, op.value)
    ELSE io_vals

\* A slip a claim's check must notice: the flag is read without the
\* version bits.
flag_byte_bare(flag) == IF flag THEN 128 ELSE 0
\* lines 201-204: the NMI flag in bit 7 over CPU_VERSION.
rdnmi_byte(flag) == (IF flag THEN 128 ELSE 0) + 2
\* A slip a claim's check must notice: the IRQ flag is read in bit 6.
flag_byte_bit6(flag) == IF flag THEN 64 ELSE 0
\* line 207: the IRQ flag in bit 7.
timeup_byte(flag) == IF flag THEN 128 ELSE 0

\* The byte Peripherals::load returns for the work RAM, for the registers
\* of the bus itself and for the ports of the SPC700.  The collaborators
\* that are not part of this model (PPU, input, DMA registers, cartridge)
\* read as 0, as do the write-only and the unmapped addresses.
load_byte(bank, addr) ==
    IF WramIndex(BusLoad(bank, addr)) >= 0
    THEN wram_get(wram, WramIndex(BusLoad(bank, addr)))
    ELSE IF ~SysBank(bank) THEN 0
    ELSE CASE addr \in 8512..8575 -> read_port_val(addr % 4)
           [] addr = 16898 -> wrmpya
           [] addr = 16899 -> wrmpyb
           [] addr = 16912 -> rdnmi_byte(nmi)
           [] addr = 16913 -> timeup_byte(irq)
           [] addr = 16916 -> rddiv % 256
           [] addr = 16917 -> rddiv \div 256
           [] addr = 16918 -> rdmpy % 256
           [] addr = 16919 -> rdmpy \div 256
           [] OTHER -> 0
bus_value(op) == IF op.kind = "load" THEN load_byte(op.bank, op.addr) ELSE bus_ret

\* What one access does to the registers of the bus, the accrued cycles
\* aside.
BusRegs(op) ==
    /\ nmien' = bus_nmien(op)
    /\ nmi' = bus_nmi(op)
    /\ irq' = bus_irq(op)
    /\ hdmaen' = bus_hdmaen(op)
    /\ memsel' = bus_memsel(op)
    /\ htime' = bus_htime(op)
    /\ vtime' = bus_vtime(op)
    /\ wrmpya' = bus_wrmpya(op)
    /\ wrmpyb' = bus_wrmpyb(op)
    /\ wrdiv' = bus_wrdiv(op)
    /\ rddiv' = bus_rddiv(op)
    /\ rdmpy' = bus_rdmpy(op)
    /\ io_vals' = bus_io_vals(op)
    /\ bus_ret' = bus_value(op)
    /\ wram' = bus_wram(op)
    /\ wmaddl' = bus_wmaddl(op)
    /\ wmaddm' = bus_wmaddm(op)
    /\ wmaddh' = bus_wmaddh(op)
    /\ UNCHANGED input_vars

\* Peripherals::load and Peripherals::store on their own: one access of
\* the instruction the CPU is running.
Peripherals_access(op) ==
    /\ op.kind # "none"
    /\ ~bus_panics(op)
    /\ cy' = bus_cy(op)
    /\ BusRegs(op)
    /\ UNCHANGED <<pc, master_cy, apu_master_cy_debt, ppu_master_cy_debt,
                   cpu_master_cy, frame_rendered, v_counter, h_counter,
                   ppu_cycles, cpu_nmi, cpu_irq, calls, renders, render_failed,
                   wai_only>>
    /\ UNCHANGED <<mem, timers, reg_dsp_addr, apu_fault, ret, apu_cycles>>
    /\ UNCHANGED core_vars
Peripherals_load(bank, addr) == Peripherals_access(BusLoad(bank, addr))
Peripherals_store(bank, addr, value) == Peripherals_access(BusStore(bank, addr, value))

(***************************************************************************)
(* The picture processor and the DMA engine are collaborators outside the  *)
(* sources.  The scheduler sees the PPU only through update(), which       *)
(* returns a cycle count, and through the two counters, which it compares  *)
(* with the coordinates of its event table and with htime / vtime.  The    *)
(* model's PPU walks, in raster order, a sample of the scanlines and of    *)
(* the dots of a scanline that holds every coordinate of the event table.  *)
(***************************************************************************)
Lines == <<0, 100, 224, 225, 261>>
Dots == <<0, 6, 50, 180, 256, 278, 339>>

IndexIn(seq, x) == CHOOSE i \in 1..Len(seq) : seq[i] = x
After(seq, x) == IF IndexIn(seq, x) = Len(seq) THEN seq[1] ELSE seq[IndexIn(seq, x) + 1]

ppu_next_h == After(Dots, h_counter)
ppu_next_v == IF h_counter = Dots[Len(Dots)] THEN After(Lines, v_counter) ELSE v_counter

\* init_hdma / do_hdma return the cycles the transfer took.
hdma_cycles(channels) == IF channels = 0 THEN 0 ELSE 18

(***************************************************************************)
(* Snes::render_frame.                                                     *)
(***************************************************************************)
\* A slip a claim's check must notice: the pass never ends the call.
PassEnd_continue(rendered) == "cpu"

\* A slip a claim's check must notice: a pass that has not rendered the
\* frame suspends the loop instead of starting the next pass.
PassEnd_suspend(rendered) == IF rendered THEN "idle" ELSE "suspended"

\* line 473: the pass is over; return if the frame was rendered.
PassEnd(rendered) == IF rendered THEN "idle" ELSE "cpu"
\* A slip a claim's check must notice: the PPU runs once more when it is
\* owed nothing.
PpuLoop_inclusive(ppu_debt, rendered) ==
    IF ppu_debt >= 0 THEN "ppu" ELSE PassEnd(rendered)

\* line 403: the head of the PPU drain loop.
PpuLoop(ppu_debt, rendered) == IF ppu_debt > 0 THEN "ppu" ELSE PassEnd(rendered)
\* A slip a claim's check must notice: the SPC700 runs as soon as it is
\* owed one of its cycles.
ApuLoop_inclusive(apu_debt, ppu_debt, rendered) ==
    IF apu_debt >= APU_DIVIDER THEN "apu" ELSE PpuLoop(ppu_debt, rendered)

\* line 397: the head of the APU drain loop.
ApuLoop(apu_debt, ppu_debt, rendered) ==
    IF apu_debt > APU_DIVIDER THEN "apu" ELSE PpuLoop(ppu_debt, rendered)

\* A slip a claim's check must notice: a call starts with both debts
\* forgiven.
CallRenderFrame_forgiving ==
    /\ pc = "idle"
    /\ ~render_failed
    /\ ~apu_fault
    /\ pc' = "cpu"
    /\ renders' = 0
    /\ wai_only' = TRUE
    /\ calls' = {}
    /\ apu_master_cy_debt' = 0
    /\ ppu_master_cy_debt' = 0
    /\ UNCHANGED <<master_cy, cpu_master_cy, frame_rendered, cy, nmien, nmi,
                   irq, hdmaen, htime, vtime, memsel, v_counter, h_counter,
                   ppu_cycles, cpu_nmi, cpu_irq, render_failed>>
    /\ UNCHANGED <<apu_vars, bus_vars, input_vars, core_vars>>

\* The caller (Emulator::run) calls render_frame, unless a frame failed.
CallRenderFrame ==
    /\ pc = "idle"
    /\ ~render_failed
    /\ ~apu_fault
    /\ pc' = "cpu"
    /\ renders' = 0
    /\ wai_only' = TRUE
    /\ calls' = {}
    /\ UNCHANGED <<master_cy, apu_master_cy_debt, ppu_master_cy_debt,
                   cpu_master_cy, frame_rendered, cy, nmien, nmi, irq, hdmaen,
                   htime, vtime, memsel, v_counter, h_counter, ppu_cycles,
                   cpu_nmi, cpu_irq, render_failed>>
    /\ UNCHANGED <<apu_vars, bus_vars, input_vars, core_vars>>

\* A slip a claim's check must notice: the floor of 3 master cycles is left out.
cpu_cycles_unfloored(c, io) == c * CPU_CYCLE + io

\* lines 382 and 389: the master cycles of a CPU step of c cycles that
\* leaves io accrued I/O cycles behind.
cpu_cycles(c, io) == Max(3, c * CPU_CYCLE + io)

\* A slip a claim's check must notice: the two debts share the cycles.
add_cycles_halved(count, cycles) == count + cycles \div 2

\* lines 390, 393 and 394: a cycle count grows by the cycles of the step.
add_cycles(count, cycles) == count + cycles

\* lines 373-394: one instruction of the main CPU, which makes the bus
\* access op and reports c cycles; the debts grow by its master cycles.
CpuStep(c, op) ==
    /\ pc = "cpu"
    /\ ~apu_fault
    /\ ~bus_panics(op)
    /\ frame_rendered' = FALSE
    /\ BusRegs(op)
    /\ cpu_master_cy' = cpu_cycles(c, bus_cy(op))
    /\ cy' = 0
    /\ master_cy' = add_cycles(master_cy, cpu_master_cy')
    /\ apu_master_cy_debt' = add_cycles(apu_master_cy_debt, cpu_master_cy')
    /\ ppu_master_cy_debt' = add_cycles(ppu_master_cy_debt, cpu_master_cy')
    /\ pc' = ApuLoop(apu_master_cy_debt', ppu_master_cy_debt', FALSE)
    /\ cpu_nmi' = FALSE
    /\ cpu_irq' = FALSE
    /\ calls' = {}
    /\ wai_only' = (wai_only /\ c = 0)
    /\ UNCHANGED <<v_counter, h_counter, ppu_cycles, renders, render_failed>>
    /\ UNCHANGED <<mem, timers, reg_dsp_addr, apu_fault, ret, apu_cycles>>
    /\ UNCHANGED core_vars

\* A slip a claim's check must notice: the SPC700 runs beside the loop, and
\* the loop may or may not wait for its next instruction.
ApuStep_free(c) ==
    /\ pc = "apu"
    /\ dispatch_timers(c)
    /\ apu_master_cy_debt' = apu_master_cy_debt - c * APU_DIVIDER
    /\ pc' \in {"apu", PpuLoop(ppu_master_cy_debt, frame_rendered)}
    /\ calls' = {}
    /\ UNCHANGED <<master_cy, ppu_master_cy_debt, cpu_master_cy, frame_rendered,
                   cy, nmien, nmi, irq, hdmaen, htime, vtime, memsel, v_counter,
                   h_counter, ppu_cycles, cpu_nmi, cpu_irq, renders,
                   render_failed, wai_only>>
    /\ UNCHANGED <<bus_vars, input_vars, core_vars>>

\* lines 397-402: one instruction of the SPC700, of c cycles.
ApuStep(c) ==
    /\ pc = "apu"
    /\ dispatch_timers(c)
    /\ apu_master_cy_debt' = apu_master_cy_debt - c * APU_DIVIDER
    /\ pc' = ApuLoop(apu_master_cy_debt', ppu_master_cy_debt, frame_rendered)
    /\ calls' = {}
    /\ UNCHANGED <<master_cy, ppu_master_cy_debt, cpu_master_cy, frame_rendered,
                   cy, nmien, nmi, irq, hdmaen, htime, vtime, memsel, v_counter,
                   h_counter, ppu_cycles, cpu_nmi, cpu_irq, renders,
                   render_failed, wai_only>>
    /\ UNCHANGED <<bus_vars, input_vars, core_vars>>

\* lines 397-402: one instruction of the SPC700, executed by dispatch.  A
\* panic of dispatch unwinds render_frame: nothing of the loop follows it.
ApuExec ==
    /\ pc = "apu"
    /\ Spc700_dispatch
    /\ IF apu_fault'
       THEN UNCHANGED snes_vars
       ELSE /\ apu_master_cy_debt' = apu_master_cy_debt - apu_cy' * APU_DIVIDER
            /\ pc' = ApuLoop(apu_master_cy_debt', ppu_master_cy_debt,
                             frame_rendered)
            /\ calls' = {}
            /\ UNCHANGED <<master_cy, ppu_master_cy_debt, cpu_master_cy,
                           frame_rendered, cy, nmien, nmi, irq, hdmaen, htime,
                           vtime, memsel, v_counter, h_counter, ppu_cycles,
                           cpu_nmi, cpu_irq, renders, render_failed, wai_only>>
    /\ UNCHANGED <<bus_vars, input_vars>>

\* lines 408-454: what the event table does at the coordinates (v, h).
EventCalls(v, h) ==
    CASE v = 0 /\ h = 6 -> {"init_hdma"}
      [] v \in 0..224 /\ h = 278 -> {"do_hdma"}
      [] v = 224 /\ h = 256 -> {"render"}
      [] v = 225 /\ h = 0 ->
            {"new_frame"} \cup (IF nmi_enabled THEN {"trigger_nmi"} ELSE {})
      [] v = 225 /\ h = 50 ->
            IF TestBit(nmien, 1) THEN {"perform_auto_read"} ELSE {}
      [] OTHER -> {}

\* A slip a claim's check must notice: the DRAM refresh costs nothing.
EventCy_norefresh(v, h) ==
    CASE v = 0 /\ h = 6 -> cy + hdma_cycles(hdmaen)
      [] v \in 0..224 /\ h = 278 -> cy + hdma_cycles(hdmaen)
      [] OTHER -> cy

EventCy(v, h) ==
    CASE v = 0 /\ h = 6 -> cy + hdma_cycles(hdmaen)
      [] v \in 0..224 /\ h = 278 -> cy + hdma_cycles(hdmaen)
      [] h = 180 -> cy + 40
      [] OTHER -> cy

\* A slip a claim's check must notice: the NMI flag is set only when the
\* NMI is enabled.
EventNmi_gated(v, h) ==
    CASE v = 0 /\ h = 0 -> FALSE
      [] v = 225 /\ h = 0 -> nmi_enabled \/ nmi
      [] OTHER -> nmi

EventNmi(v, h) ==
    CASE v = 0 /\ h = 0 -> FALSE
      [] v = 225 /\ h = 0 -> TRUE
      [] OTHER -> nmi

\* A slip a claim's check must notice: the NMI does not leave the loop.
NmiBreak_never(v, h) == FALSE

\* lines 432-436: the NMI leaves the drain loop at once.
NmiBreak(v, h) == v = 225 /\ h = 0 /\ nmi_enabled

\* lines 456-470: the counter-match check that follows the event table.
IrqMatch(v, h) ==
    \/ v = vtime /\ v_irq_enabled
    \/ h = htime /\ h_irq_enabled

\* A slip a claim's check must notice: the counter-match check comes
\* before the event table, and its break skips the event of the step.
PpuStep_irq_first(c, ok) ==
    /\ pc = "ppu"
    /\ ~apu_fault
    /\ v_counter' = ppu_next_v
    /\ h_counter' = ppu_next_h
    /\ ppu_cycles' = ppu_cycles + c
    /\ ppu_master_cy_debt' = ppu_master_cy_debt - c
    /\ LET v == ppu_next_v
           h == ppu_next_h
           rendering == v = 224 /\ h = 256
       IN  IF IrqMatch(v, h)
           THEN /\ irq' = TRUE
                /\ cpu_irq' = TRUE
                /\ calls' = {"trigger_irq"}
                /\ pc' = PassEnd(frame_rendered)
                /\ UNCHANGED <<renders, render_failed, frame_rendered, cy, nmi,
                               cpu_nmi>>
           ELSE IF rendering /\ ~ok
           THEN /\ renders' = renders + 1
                /\ render_failed' = TRUE
                /\ calls' = {"render"}
                /\ pc' = "idle"
                /\ UNCHANGED <<frame_rendered, cy, nmi, irq, cpu_nmi, cpu_irq>>
           ELSE /\ renders' = IF rendering THEN renders + 1 ELSE renders
                /\ frame_rendered' = (frame_rendered \/ rendering)
                /\ cy' = EventCy(v, h)
                /\ nmi' = EventNmi(v, h)
                /\ UNCHANGED render_failed
                /\ IF NmiBreak(v, h)
                   THEN /\ cpu_nmi' = TRUE
                        /\ calls' = EventCalls(v, h)
                        /\ pc' = PassEnd(frame_rendered')
                        /\ UNCHANGED <<irq, cpu_irq>>
                   ELSE /\ calls' = EventCalls(v, h)
                        /\ pc' = PpuLoop(ppu_master_cy_debt', frame_rendered')
                        /\ UNCHANGED <<irq, cpu_irq, cpu_nmi>>
    /\ UNCHANGED <<master_cy, apu_master_cy_debt, cpu_master_cy, nmien, hdmaen,
                   htime, vtime, memsel, wai_only>>
    /\ UNCHANGED <<apu_vars, bus_vars, input_vars, core_vars>>

\* lines 403-471: one step of the PPU, which takes c cycles; ok is the
\* result of the render closure, should this step call it.
PpuStep(c, ok) ==
    /\ pc = "ppu"
    /\ ~apu_fault
    /\ v_counter' = ppu_next_v
    /\ h_counter' = ppu_next_h
    /\ ppu_cycles' = ppu_cycles + c
    /\ ppu_master_cy_debt' = ppu_master_cy_debt - c
    /\ LET v == ppu_next_v
           h == ppu_next_h
           rendering == v = 224 /\ h = 256
       IN  IF rendering /\ ~ok
           THEN \* try!: the error of the closure is returned at once
                /\ renders' = renders + 1
                /\ render_failed' = TRUE
                /\ calls' = {"render"}
                /\ pc' = "idle"
                /\ UNCHANGED <<frame_rendered, cy, nmi, irq, cpu_nmi, cpu_irq>>
           ELSE /\ renders' = IF rendering THEN renders + 1 ELSE renders
                /\ frame_rendered' = (frame_rendered \/ rendering)
                /\ cy' = EventCy(v, h)
                /\ nmi' = EventNmi(v, h)
                /\ UNCHANGED render_failed
                /\ IF NmiBreak(v, h)
                   THEN /\ cpu_nmi' = TRUE
                        /\ calls' = EventCalls(v, h)
                        /\ pc' = PassEnd(frame_rendered')
                        /\ UNCHANGED <<irq, cpu_irq>>
                   ELSE IF IrqMatch(v, h)
                   THEN /\ irq' = TRUE
                        /\ cpu_irq' = TRUE
                        /\ calls' = EventCalls(v, h) \cup {"trigger_irq"}
                        /\ pc' = PassEnd(frame_rendered')
                        /\ UNCHANGED cpu_nmi
                   ELSE /\ calls' = EventCalls(v, h)
                        /\ pc' = PpuLoop(ppu_master_cy_debt', frame_rendered')
                        /\ UNCHANGED <<irq, cpu_irq, cpu_nmi>>
    /\ UNCHANGED <<master_cy, apu_master_cy_debt, cpu_master_cy, nmien, hdmaen,
                   htime, vtime, memsel, wai_only>>
    /\ UNCHANGED <<apu_vars, bus_vars, input_vars, core_vars>>

(***************************************************************************)
(* Spec: the scheduler.  The main CPU runs instructions of 0 (WAI) or more *)
(* cycles that fetch from ROM, write NMITIMEN or read the NMI flag.        *)
(***************************************************************************)
\* The master cycle up to which the caller starts another frame.
MaxMasterCy == 150

CpuCycles == {0, 2}
ApuCycles == {2, 5}
PpuCycles == {8}
RenderResults == {TRUE, FALSE}
\* $00:8000 (ROM), $4200 <- $80 / $00, $4210
SchedBusOps ==
    {NoAccess, BusLoad(0, 32768), BusStore(0, 16896, 128), BusStore(0, 16896, 0),
     BusLoad(0, 16912)}

Next ==
    \/ master_cy < MaxMasterCy /\ CallRenderFrame
    \/ \E c \in CpuCycles, op \in SchedBusOps :
          (c = 0 => op = NoAccess) /\ CpuStep(c, op)
    \/ \E c \in ApuCycles : ApuStep(c)
    \/ \E c \in PpuCycles, ok \in RenderResults : PpuStep(c, ok)

Spec == Init /\ [][Next]_vars

\* The steps of render_frame itself, as opposed to its caller's.
Run ==
    \/ \E c \in CpuCycles, op \in SchedBusOps :
          (c = 0 => op = NoAccess) /\ CpuStep(c, op)
    \/ \E c \in ApuCycles : ApuStep(c)
    \/ \E c \in PpuCycles, ok \in RenderResults : PpuStep(c, ok)

\* LiveSpec: render_frame is one thread of straight-line code, so a call
\* that has a step to take takes it.
LiveSpec == Spec /\ WF_vars(Run)

(***************************************************************************)
(* SpecIrq: the scheduler with the counter-match IRQ.  The main CPU writes *)
(* NMITIMEN, HTIME and VTIME and reads the IRQ flag.                       *)
(***************************************************************************)
\* $4200 <- $10 (V-IRQ) / $30 (H- and V-IRQ) / $a0 (NMI and H-IRQ),
\* $4207 <- 0, $4208 <- 0 (HTIME $1ff -> $100 = 256 -> 0),
\* $4209 <- 5 (VTIME $1ff -> $105 = 261), $4211
IrqBusOps ==
    {NoAccess, BusStore(0, 16896, 16), BusStore(0, 16896, 48),
     BusStore(0, 16896, 160), BusStore(0, 16903, 0), BusStore(0, 16904, 0),
     BusStore(0, 16905, 5), BusLoad(0, 16913)}
IrqCpuCycles == {2}

IrqNext ==
    \/ master_cy < MaxMasterCy /\ CallRenderFrame
    \/ \E c \in IrqCpuCycles, op \in IrqBusOps : CpuStep(c, op)
    \/ \E c \in ApuCycles : ApuStep(c)
    \/ \E c \in PpuCycles, ok \in RenderResults : PpuStep(c, ok)

SpecIrq == Init /\ [][IrqNext]_vars

(***************************************************************************)
(* SpecVirq: the scheduler with the V-IRQ on the last visible scanline.    *)
(* The main CPU switches the V-IRQ and the H-DMA channels on and off and   *)
(* sets VTIME to 224.                                                      *)
(***************************************************************************)
\* $4200 <- $10 (V-IRQ) / $00, $4209 <- $e0, $420a <- 0 (VTIME $1ff -> 224),
\* $420c <- 1
VirqBusOps ==
    {NoAccess, BusStore(0, 16896, 16), BusStore(0, 16896, 0),
     BusStore(0, 16905, 224), BusStore(0, 16906, 0), BusStore(0, 16908, 1)}

VirqNext ==
    \/ master_cy < MaxMasterCy /\ CallRenderFrame
    \/ \E c \in IrqCpuCycles, op \in VirqBusOps : CpuStep(c, op)
    \/ \E c \in ApuCycles : ApuStep(c)
    \/ \E c \in PpuCycles, ok \in RenderResults : PpuStep(c, ok)

SpecVirq == Init /\ [][VirqNext]_vars

(***************************************************************************)
(* SpecHdma: the scheduler with H-DMA channels.  The main CPU writes       *)
(* HDMAEN and reads the cartridge.                                         *)
(***************************************************************************)
\* $420c <- 1, $420c <- 0, $00:8000
HdmaBusOps ==
    {NoAccess, BusStore(0, 16908, 1), BusStore(0, 16908, 0), BusLoad(0, 32768)}

HdmaNext ==
    \/ master_cy < MaxMasterCy /\ CallRenderFrame
    \/ \E c \in CpuCycles, op \in HdmaBusOps :
          (c = 0 => op = NoAccess) /\ CpuStep(c, op)
    \/ \E c \in ApuCycles : ApuStep(c)
    \/ \E c \in PpuCycles, ok \in RenderResults : PpuStep(c, ok)

SpecHdma == Init /\ [][HdmaNext]_vars

(***************************************************************************)
(* SpecMul and SpecDiv: the multiplier and the divider of the bus.  The    *)
(* main CPU writes the operands and reads the results.                     *)
(***************************************************************************)
MaxMdu == 3
MduSeq == <<0, 32, 16, 255, 7>>
MduVals == {MduSeq[i] : i \in 1..MaxMdu}

\* $4202 / $4203 <- v, $4216, $4217
MulNext ==
    \/ \E a \in 16898..16899, v \in MduVals : Peripherals_store(0, a, v)
    \/ \E a \in 16918..16919 : Peripherals_load(0, a)

SpecMul == Init /\ [][MulNext]_vars

\* $4204 / $4205 / $4206 <- v, $4214 .. $4217
DivNext ==
    \/ \E a \in 16900..16902, v \in MduVals : Peripherals_store(0, a, v)
    \/ \E a \in 16916..16919 : Peripherals_load(0, a)

SpecDiv == Init /\ [][DivNext]_vars

(***************************************************************************)
(* SpecBus: the I/O cycles of the bus.  The main CPU loads from and stores *)
(* to the corners of every region of the penalty table, switches the       *)
(* fastROM flag, writes NMITIMEN and starts a DMA.                         *)
(***************************************************************************)
\* The accrued cycles up to which the instruction makes another access.
MaxBusCy == 30

\* $00, $3f, $40, $7f, $80, $bf, $c0, $ff
BusBanks == {0, 63, 64, 127, 128, 191, 192, 255}
\* $1fff, $2134, $3fff, $4000, $41ff, $4200, $420b, $420d, $5fff, $6000,
\* $7fff, $8000, $ffff
BusAddrs ==
    {8191, 8500, 16383, 16384, 16895, 16896, 16907, 16909, 24575, 24576,
     32767, 32768, 65535}
BusLoads == {BusLoad(b, a) : b \in BusBanks, a \in BusAddrs}
\* A store of 0 to each address, and of 1 to NMITIMEN, MDMAEN and MEMSEL.
BusStores ==
    {BusStore(b, a, 0) : b \in BusBanks, a \in BusAddrs}
    \cup {BusStore(0, 16896, 1), BusStore(0, 16907, 1), BusStore(128, 16909, 1)}
BusOps == BusLoads \cup BusStores

BusNext ==
    \/ \E op \in BusLoads : cy < MaxBusCy /\ Peripherals_access(op)
    \/ \E op \in BusStores : cy < MaxBusCy /\ Peripherals_access(op)

SpecBus == Init /\ [][BusNext]_vars

(***************************************************************************)
(* The SPC700 in the middle of an uploaded program: one instruction at     *)
(* $200, registers and direct-page bytes as the program left them.  The    *)
(* byte after a two-byte instruction is 0, an opcode without an arm.       *)
(***************************************************************************)
ByteVals == {0, 1, 15, 127, 128, 255}
PswVals == {0, 1, 2, 128, 33, 76, 255}
TimersOn == [i \in TimerIds |-> [Timer_new EXCEPT !.enabled = TRUE, !.div = 1]]

Loaded(prog, a_reg, y_reg, s, m16, m17, ts) ==
    /\ mem = [ad \in RamAddrs |->
                CASE ad \in ProgBase..(ProgBase + 2) -> prog[ad - ProgBase + 1]
                  [] ad = 16 -> m16
                  [] ad = 17 -> m17
                  [] ad = 272 -> 255 - m16
                  [] OTHER -> new_mem[ad]]
    /\ io_vals = [p \in Ports |-> 0]
    /\ timers = ts
    /\ reg_dsp_addr = 0
    /\ apu_fault = FALSE
    /\ ret = NoRet
    /\ apu_cycles = 0
    /\ reg_a = a_reg
    /\ reg_x = 0
    /\ reg_y = y_reg
    /\ reg_sp = 239
    /\ reg_pc = ProgBase
    /\ reg_psw = s
    /\ apu_cy = 0

(***************************************************************************)
(* SpecAlu: CMP, ADC and ROR, and the construction of a fresh SPC700.      *)
(***************************************************************************)
AluProgs ==
    {<<op, i, 0>> : op \in {CmpImmA, AdcImmA}, i \in ByteVals}
    \cup {<<CmpImmDirect, i, 16>> : i \in ByteVals}
    \cup {<<CmpDirectA, 16, 0>>, <<AdcDirectA, 16, 0>>, <<RorDirect, 16, 0>>}

InitAlu ==
    /\ SnesInit
    /\ \E prog \in AluProgs, a_reg \in ByteVals, s \in PswVals, m16 \in ByteVals :
          Loaded(prog, a_reg, 0, s, m16, 0, [i \in TimerIds |-> Timer_new])

AluNext ==
    \/ Spc700_dispatch /\ UNCHANGED <<snes_vars, bus_vars, input_vars>>
    \/ Spc700_new /\ UNCHANGED <<snes_vars, bus_vars, input_vars>>

SpecAlu == InitAlu /\ [][AluNext]_vars

(***************************************************************************)
(* SpecBranch: the scheduler with the SPC700 executing a branch, or an     *)
(* opcode without an arm.  The main CPU makes no bus access.               *)
(***************************************************************************)
\* Offsets: back to the branch itself (2 or 3 bytes long), and none.
BranchProgs ==
    {<<op, r, 0>> : op \in RelBranches \cup {DbnzY}, r \in {254, 0}}
    \cup {<<op, 16, r>> : op \in BbcOps \cup {Cbne}, r \in {253, 0}}
    \cup {<<19, 244, 253>>, <<19, 240, 253>>, <<255, 0, 0>>}

InitBranch ==
    /\ SnesInit
    /\ \/ \E prog \in BranchProgs, s \in {0, 1, 2, 128, 32},
             ts \in {TimersOn, [i \in TimerIds |-> Timer_new]} :
             Loaded(prog, 16, 2, s, 16, 0, ts)
       \/ \E prog \in BranchProgs, a_reg \in {0, 16}, y_reg \in {0, 1},
             m16 \in {0, 16, 255}, m17 \in {0, 1} :
             Loaded(prog, a_reg, y_reg, 0, m16, m17, TimersOn)

BranchNext ==
    \/ master_cy < MaxMasterCy /\ CallRenderFrame
    \/ \E c \in IrqCpuCycles : CpuStep(c, NoAccess)
    \/ ApuExec
    \/ \E c \in PpuCycles, ok \in RenderResults : PpuStep(c, ok)

SpecBranch == InitBranch /\ [][BranchNext]_vars

(***************************************************************************)
(* SpecRegs: the I/O page of the SPC700.  The SPC700 loads from and stores *)
(* to the registers $f0-$ff, the main CPU stores to the ports.             *)
(***************************************************************************)
\* $f0 test, $f1 control, $f2 DSP address, $f4 port 0, $fa divider of
\* timer 0, $fd-$ff the read-only timer outputs.
RegStoreAddrs == {240, 242, 244, 250, 253, 254, 255}
\* $f3 is the DSP's (dsp.rs is not among the sources): left out.
RegLoadAddrs == (240..255) \ {243}
\* $0a is the one value the test register takes.
RegVals == {10, 66}
\* Timer 0 on and ports 0-1 cleared; timer 1 on and ports 2-3 cleared.
RegCtrlVals == {17, 34}

RegsNext ==
    \/ \E p \in Ports : store_port(p, 66)
    \/ \E ad \in RegLoadAddrs : load(ad)
    \/ \E ad \in RegStoreAddrs, v \in RegVals : store(ad, v)
    \/ \E c \in RegCtrlVals : store(241, c)

RegsStep == RegsNext /\ UNCHANGED <<snes_vars, bus_vars, input_vars, core_vars>>

SpecRegs == Init /\ [][RegsStep]_vars

(***************************************************************************)
(* SpecWram: the work RAM on the bus.  The main CPU loads and stores at    *)
(* the last mirrored offset and at the first offset past the mirror, in    *)
(* system banks, in the two banks of the work RAM and in a cartridge bank; *)
(* it sets the address registers $2181 and $2183 and goes through the port *)
(* $2180.                                                                  *)
(***************************************************************************)
\* The accrued cycles up to which the instruction makes another access.
MaxWramCy == 4
\* The low byte of the port's address up to which the port is accessed.
MaxWramPort == 1

\* $00, $40, $7e, $7f, $bf
WramBanks == {0, 64, 126, 127, 191}
\* $1fff, $2000
WramOffsets == {8191, 8192}
WramVals == {0, 85}
WramDirect ==
    {BusLoad(b, a) : b \in WramBanks, a \in WramOffsets}
    \cup {BusStore(b, a, x) : b \in WramBanks, a \in WramOffsets, x \in WramVals}
WramPortOps == {BusLoad(0, 8576)} \cup {BusStore(191, 8576, x) : x \in WramVals}
\* WMADDL = 0, WMADDH = 0 or 1 (of $ff, one bit is kept)
WramAddrStores ==
    {BusStore(0, 8577, 0), BusStore(0, 8579, 0), BusStore(128, 8579, 255)}
WramOps == WramDirect \cup WramPortOps \cup WramAddrStores

WramNext ==
    \/ \E op \in WramDirect : cy < MaxWramCy /\ Peripherals_access(op)
    \/ \E op \in WramPortOps : wmaddl < MaxWramPort /\ Peripherals_access(op)
    \/ \E op \in WramAddrStores : Peripherals_access(op)

SpecWram == Init /\ [][WramNext]_vars

(***************************************************************************)
(* SpecPort: the port $2180 at the ends of the work RAM.  The main CPU    *)
(* sets the address registers to the first and to the last bytes of a     *)
(* page and of a bank.  In the first and in the last page of a bank it    *)
(* loads through the port while the low byte of the address is at the end *)
(* of the page or at its start, and stores through it at the last byte.   *)
(***************************************************************************)
PortAddrStores ==
    {BusStore(0, 8577, x) : x \in {0, 254, 255}}
    \cup {BusStore(63, 8578, x) : x \in {0, 255}}
    \cup {BusStore(128, 8579, x) : x \in {0, 1, 254, 255}}
PortLoads == {BusLoad(0, 8576), BusLoad(191, 8576)}
PortStores == {BusStore(0, 8576, 0), BusStore(128, 8576, 85)}
PortOps == PortAddrStores \cup PortLoads \cup PortStores

PortNext ==
    \/ \E op \in PortAddrStores : Peripherals_access(op)
    \/ \E op \in PortLoads :
            /\ wmaddm \in {0, 255}
            /\ wmaddl >= 254 \/ wmaddl < MaxWramPort
            /\ Peripherals_access(op)
    \/ \E op \in PortStores :
            /\ wmaddm \in {0, 255}
            /\ wmaddl = 255
            /\ Peripherals_access(op)

SpecPort == Init /\ [][PortNext]_vars

(***************************************************************************)
(* SpecStack: the SPC700 executing push, pop, call and ret at either end   *)
(* of the stack page.  X holds the SP the program starts with; the byte   *)
(* at $10 is a RET, which CALL $0010 reaches.                              *)
(***************************************************************************)
StackProgs ==
    {<<PushA, PopY, PushX>>, <<PushX, PopY, 255>>, <<PushY, PopY, PopY>>,
     <<PopY, PushA, PushY>>, <<CallAbs, 16, 0>>, <<Ret, PushA, PopY>>}
StackSps == {0, 1, 2, 253, 254, 255}

InitStack ==
    /\ SnesInit
    /\ \E prog \in StackProgs, sp \in StackSps, a_reg \in {1, 128},
          y_reg \in {0, 3}, s \in {0, 130}, top \in {0, 2} :
          /\ mem = [ad \in RamAddrs |->
                      CASE ad \in ProgBase..(ProgBase + 2) -> prog[ad - ProgBase + 1]
                        [] ad = 16 -> Ret
                        [] ad \in {256, 258, 510} -> top
                        [] OTHER -> new_mem[ad]]
          /\ io_vals = [p \in Ports |-> 0]
          /\ timers = [i \in TimerIds |-> Timer_new]
          /\ reg_dsp_addr = 0
          /\ apu_fault = FALSE
          /\ ret = NoRet
          /\ apu_cycles = 0
          /\ reg_a = a_reg
          /\ reg_x = sp
          /\ reg_y = y_reg
          /\ reg_sp = sp
          /\ reg_pc = ProgBase
          /\ reg_psw = s
          /\ apu_cy = 0

StackNext == Spc700_dispatch /\ UNCHANGED <<snes_vars, bus_vars, input_vars>>

SpecStack == InitStack /\ [][StackNext]_vars

(***************************************************************************)
(* SpecInput: the controller input driven by the frontend and the bus.     *)
(***************************************************************************)
InputRegs == {16406, 16407, 16920, 16921, 16925, 16928}
InputWords == {0, 33023}

InputNext ==
    \/ Input_start_recording
    \/ Input_start_replay
    \/ \E ports \in BOOLEAN \X BOOLEAN : Input_unwrap_ports(ports)
    \/ \E reg \in InputRegs : Input_load(reg)
    \/ \E reg \in {16406, 16407}, val \in {0, 1} : Input_store(reg, val)
    \/ \E words \in [1..4 -> InputWords] : Input_perform_auto_read(words)

InputStep == InputNext /\ UNCHANGED <<apu_vars, snes_vars, bus_vars, core_vars>>

SpecInput == Init /\ [][InputStep]_vars

(***************************************************************************)
(* SpecMbox: the mailbox.  The main CPU stores to and reads from the four  *)
(* ports; the SPC700 loads from and stores to $f4-$f7 and writes the       *)
(* control register $f1.                                                   *)
(***************************************************************************)
\* Control values: no bit, clear ports 0-1, clear ports 2-3, clear all.
CtrlVals == {0, 16, 32, 48}

MboxNext ==
    \/ \E p \in Ports, v \in DataVals : store_port(p, v)
    \/ \E p \in Ports : read_port(p)
    \/ \E a \in MemAddrs : load(a)
    \/ \E a \in MemAddrs, v \in DataVals : store(a, v)
    \/ \E c \in CtrlVals : store(241, c)

MboxStep == MboxNext /\ UNCHANGED <<snes_vars, bus_vars, input_vars, core_vars>>

SpecMbox == Init /\ [][MboxStep]_vars

(***************************************************************************)
(* SpecTimer: the timers.  The SPC700 runs instructions (their cycles     *)
(* advance the timers), writes the control register and the dividers,     *)
(* and reads the three out registers $fd-$ff.                              *)
(***************************************************************************)
\* Cycle counts of single instructions (from CYCLE_TABLE, +2 when taken).
StepCycles == {8, 12}
\* Control values: all timers off, timer 2 on, all timers on.
TimerCtrlVals == {0, 4, 7}
DivVals == {1}

TimerNext ==
    \/ \E c \in StepCycles : apu_cycles + c <= MaxApuCycles /\ dispatch_timers(c)
    \/ \E a \in 253..255 : load(a)
    \/ \E c \in TimerCtrlVals : store(241, c)
    \/ \E a \in 250..252, d \in DivVals : store(a, d)

TimerStep == TimerNext /\ UNCHANGED <<snes_vars, bus_vars, input_vars, core_vars>>

SpecTimer == Init /\ [][TimerStep]_vars

\* C1: after the main CPU stores v to port p, an SPC700 load of $f4+p
\* returns v; the value such a load returns changes only at a store_port to
\* p or at a control write to $f1 whose clear bit covers p; and a load
\* hands back exactly that value and leaves it in place.
C1_InboundMailbox ==
    [][ /\ \A p \in Ports, v \in DataVals :
              store_port(p, v) => load_val(IoBase + p)' = v
        /\ \A p \in Ports :
              load(IoBase + p) =>
                  /\ ret' = Returned("load", io_vals[p])
                  /\ load_val(IoBase + p)' = io_vals[p]
        /\ \A p \in Ports :
              load_val(IoBase + p)' # load_val(IoBase + p) =>
                  \/ \E v \in DataVals : store_port(p, v)
                  \/ \E c \in CtrlVals :
                        store(241, c) /\ TestBit(c, IF p < 2 THEN 16 ELSE 32)
      ]_apu_vars

\* The SPC700 has read 66 from the inbound byte of port 1, the only byte
\* of the machine that holds 66: the RAM under $f4-$f7 is all zero.
C1_Witness ==
    /\ ret = Returned("load", 66)
    /\ io_vals = [p \in Ports |-> IF p = 1 THEN 66 ELSE 0]
    /\ \A a \in MemAddrs : mem[a] = 0

\* C2: after the SPC700 stores v to $f4+p the RAM byte at $f4+p holds v and
\* read_port(p) returns v; the value read_port(p) returns changes only at
\* an SPC700 store to $f4+p; read_port hands back exactly the RAM byte.
C2_OutboundMailbox ==
    [][ /\ \A p \in Ports, v \in DataVals :
              store(IoBase + p, v) =>
                  mem'[IoBase + p] = v /\ read_port_val(p)' = v
        /\ \A p \in Ports :
              read_port(p) =>
                  /\ ret' = Returned("read_port", mem[IoBase + p])
                  /\ read_port_val(p)' = mem[IoBase + p]
        /\ \A p \in Ports :
              read_port_val(p)' # read_port_val(p) =>
                  \E v \in DataVals : store(IoBase + p, v)
      ]_apu_vars

\* The main CPU has read 66 from port 2, stored there by the SPC700 and the
\* only byte of the machine that holds 66: its own inbound bytes are zero.
C2_Witness ==
    /\ ret = Returned("read_port", 66)
    /\ \A a \in MemAddrs : mem[a] = (IF a = IoBase + 2 THEN 66 ELSE 0)
    /\ io_vals = [p \in Ports |-> 0]

\* C3: the two directions are separate registers: a main-CPU store_port(p, v)
\* leaves what read_port(p) returns unchanged, and an SPC700 store to $f4+p
\* leaves what an SPC700 load of $f4+p returns unchanged.
C3_DirectionsNotUnified ==
    [][ /\ \A p \in Ports, v \in DataVals :
              store_port(p, v) => read_port_val(p)' = read_port_val(p)
        /\ \A p \in Ports, v \in DataVals :
              store(IoBase + p, v) => load_val(IoBase + p)' = load_val(IoBase + p)
      ]_apu_vars

\* Every inbound byte holds 66 and every outbound byte 0: the main CPU has
\* stored 66 to all four ports and then read 0 back.
C3_Witness ==
    /\ io_vals = [p \in Ports |-> 66]
    /\ \A a \in MemAddrs : mem[a] = 0
    /\ ret = Returned("read_port", 0)

\* C4: an SPC700 load of $fd, $fe or $ff returns the out value of timer 0,
\* 1 or 2 and sets that out to zero in the same operation, so that a load
\* repeated at once returns 0; the other two timers, and the rest of the
\* timer read, are as before.
C4_TimerReadClears ==
    [][ \A i \in TimerIds :
            load(253 + i) =>
                /\ ret' = Returned("load", timers[i].val)
                /\ timers'[i].val = 0
                /\ load_val(253 + i)' = 0
                /\ timers'[i] = [timers[i] EXCEPT !.val = 0]
                /\ \A j \in TimerIds \ {i} : timers'[j] = timers[j]
      ]_apu_vars

\* Timers 0 and 1 have ticked once, a read has returned 1 and timer 0 is
\* zero again, while timers 1 and 2 still show the ticks they have counted.
C4_Witness ==
    /\ ret = Returned("load", 1)
    /\ timers[0].val = 0
    /\ timers[1].val = 1
    /\ timers[2].val > 1

(***************************************************************************)
(* The scheduler.                                                          *)
(***************************************************************************)
AnyCpuStep == \E c \in CpuCycles, op \in SchedBusOps : CpuStep(c, op)
AnyPpuStep == \E c \in PpuCycles, ok \in RenderResults : PpuStep(c, ok)
DebtSum == apu_master_cy_debt + ppu_master_cy_debt
AtRenderDot(v, h) == v = 224 /\ h = 256
AtVblankStart(v, h) == v = 225 /\ h = 0

\* C5 (as stated): a CPU step makes the sum apu_debt + ppu_debt grow by
\* exactly the floored cpu_cy of the instruction.
C5_SumGrowsByCpuCy ==
    [][AnyCpuStep => DebtSum' - DebtSum = cpu_master_cy']_vars

\* C5 (amended): a CPU step makes each of apu_debt and ppu_debt grow by the
\* floored cpu_cy of the instruction, so that their sum grows by twice that
\* amount, and no APU or PPU cycle is consumed in that step (the drain
\* loops have not run yet).
C5_EachDebtGrowsByCpuCy ==
    [][\A c \in CpuCycles, op \in SchedBusOps :
          CpuStep(c, op) =>
             /\ cpu_master_cy' = Max(3, c * 6 + bus_cy(op))
             /\ apu_master_cy_debt' - apu_master_cy_debt = cpu_master_cy'
             /\ ppu_master_cy_debt' - ppu_master_cy_debt = cpu_master_cy'
             /\ DebtSum' - DebtSum = 2 * cpu_master_cy'
             /\ DebtSum' > DebtSum
             /\ apu_cycles' = apu_cycles
             /\ ppu_cycles' = ppu_cycles]_vars

C5_Witness ==
    /\ cpu_master_cy = 14
    /\ master_cy = 14
    /\ apu_master_cy_debt = 14
    /\ ppu_master_cy_debt = 14
    /\ apu_cycles = 0
    /\ ppu_cycles = 0
    /\ pc = "ppu"

\* C6: the master cycles of a CPU step are max(3, cycles * 6 + accrued I/O
\* cycles); master_cy, apu_debt and ppu_debt each grow by that amount, which
\* is at least 3, and the accrued I/O cycles are cleared.
C6_CpuCyFloor ==
    [][\A c \in CpuCycles, op \in SchedBusOps :
          CpuStep(c, op) =>
             LET accrued == IF op.kind = "none" THEN cy
                            ELSE cy + io_penalty(op.bank, op.addr)
                 raw == c * 6 + accrued
                 cpu_cy == IF raw < 3 THEN 3 ELSE raw
             IN  /\ cpu_master_cy' = cpu_cy
                 /\ cpu_cy >= 3
                 /\ master_cy' = master_cy + cpu_cy
                 /\ apu_master_cy_debt' = apu_master_cy_debt + cpu_cy
                 /\ ppu_master_cy_debt' = ppu_master_cy_debt + cpu_cy
                 /\ master_cy' >= master_cy + 3
                 /\ cy' = 0]_vars

C6_Witness ==
    /\ cpu_master_cy = 3
    /\ wai_only
    /\ master_cy > 280
    /\ calls = {}
    /\ pc = "ppu"

C8_VblankStart ==
    [][(AnyPpuStep /\ AtVblankStart(v_counter', h_counter')) =>
          /\ "new_frame" \in calls'
          /\ nmi'
          /\ IF nmi_enabled
             THEN /\ "trigger_nmi" \in calls'
                  /\ cpu_nmi'
                  /\ pc' \in {"cpu", "idle"}
                  /\ pc' = "idle" => frame_rendered'
             ELSE /\ "trigger_nmi" \notin calls'
                  /\ cpu_nmi' = cpu_nmi]_vars

C8_Witness ==
    /\ v_counter = 225
    /\ h_counter = 0
    /\ "trigger_nmi" \in calls
    /\ cpu_nmi
    /\ nmi
    /\ ppu_master_cy_debt > 0
    /\ pc = "cpu"

\* C9: the render closure is called by exactly the PPU steps that leave
\* the counters at (224,256); a call of render_frame that returns has called
\* it exactly once; and once it is called no new pass begins: the call
\* returns by the end of the pass that called it.
C9_RenderOncePerFrame ==
    [][/\ AnyPpuStep =>
             /\ ("render" \in calls') = AtRenderDot(v_counter', h_counter')
             /\ renders' = IF AtRenderDot(v_counter', h_counter')
                           THEN renders + 1 ELSE renders
       /\ ~AnyPpuStep => (renders' = renders \/ (CallRenderFrame /\ renders' = 0))
       /\ (pc # "idle" /\ pc' = "idle") => renders' = 1
       /\ renders' = 1 => pc' \in {"ppu", "idle"}
       /\ renders' <= 1]_vars

C9_Witness ==
    /\ pc = "idle"
    /\ renders = 1
    /\ frame_rendered
    /\ ~render_failed
    /\ "render" \notin calls
    /\ ppu_master_cy_debt <= 0
    /\ nmi

\* C10 (as stated): whenever nmi_pending and the NMI-enable bit come to
\* hold together, an NMI is raised on the CPU - also when the bit is
\* written through $4200 after nmi_pending was set.
C10_NmiLevelTriggered ==
    [][(nmi' /\ nmi_enabled' /\ ~(nmi /\ nmi_enabled)) => cpu_nmi']_vars

(***************************************************************************)
(* The counter-match IRQ.                                                  *)
(***************************************************************************)
\* A PPU step that did not end in an error of the render closure.
PpuStepDone == AnyPpuStep /\ ~render_failed'

\* C11 (as stated): after every PPU step, irq_pending is set, an IRQ is
\* raised on the CPU and the PPU drain loop is left exactly when
\* (H = htime and H-IRQ is enabled) or (V = vtime and V-IRQ is enabled);
\* with neither enabled no step sets irq_pending or raises an IRQ.
C11_IrqExactlyOnMatch ==
    [][/\ PpuStepDone =>
             LET match == \/ h_counter' = htime /\ h_irq_enabled
                          \/ v_counter' = vtime /\ v_irq_enabled
             IN  /\ ("trigger_irq" \in calls') = match
                 /\ match => (irq' /\ cpu_irq' /\ pc' # "ppu")
                 /\ ~match => (irq' = irq /\ cpu_irq' = cpu_irq)
       /\ (~h_irq_enabled /\ ~v_irq_enabled) =>
             /\ irq' => irq
             /\ cpu_irq' => cpu_irq
             /\ "trigger_irq" \notin calls']_vars

\* C12 (as stated): with H-IRQ and V-IRQ both enabled the IRQ is raised
\* only by a PPU step that leaves H = htime and V = vtime; with V-IRQ alone
\* it is raised when V = vtime.
C12_IrqBothNeedsBoth ==
    [][PpuStepDone =>
          /\ (h_irq_enabled /\ v_irq_enabled /\ "trigger_irq" \in calls') =>
                (h_counter' = htime /\ v_counter' = vtime)
          /\ (v_irq_enabled /\ ~h_irq_enabled) =>
                (("trigger_irq" \in calls') = (v_counter' = vtime))]_vars

(***************************************************************************)
(* The flag registers $4210 and $4211.                                     *)
(***************************************************************************)
\* C13: a load of $4210 returns nmi_pending in bit 7 over the version bits
\* (2) and clears nmi_pending; nmi_pending is set again by nothing but the
\* PPU step that reaches (225,0), so that until then a further load returns
\* bit 7 clear.
C13_RdnmiReadClears ==
    [][/\ \A c \in CpuCycles :
             CpuStep(c, BusLoad(0, 16912)) =>
                /\ bus_ret' = (IF nmi THEN 128 ELSE 0) + 2
                /\ ~nmi'
       /\ (nmi' /\ ~nmi) =>
             (AnyPpuStep /\ AtVblankStart(v_counter', h_counter'))]_vars

C13_Witness ==
    /\ bus_ret = 130
    /\ ~nmi
    /\ v_counter = 225
    /\ cpu_master_cy = 12

\* C14: a load of $4211 returns $80 if irq_pending is set and 0 otherwise,
\* and clears irq_pending; irq_pending is set again by nothing but a PPU
\* step that raises the counter-match IRQ, so that until then a further load
\* returns 0.
C14_TimeupReadClears ==
    [][/\ \A c \in IrqCpuCycles :
             CpuStep(c, BusLoad(0, 16913)) =>
                /\ bus_ret' = (IF irq THEN 128 ELSE 0)
                /\ ~irq'
       /\ (irq' /\ ~irq) => (AnyPpuStep /\ "trigger_irq" \in calls')]_vars

C14_Witness ==
    /\ bus_ret = 128
    /\ ~irq
    /\ ~cpu_irq
    /\ v_irq_enabled
    /\ calls = {}

(***************************************************************************)
(* The multiplier and the divider.                                         *)
(***************************************************************************)
\* C15 (as stated): a store of 0 to $4206 leaves rddiv = $ffff and
\* rdmpy = wrdiv, the dividend, and does not fault.
C15_DivideByZero ==
    [][Peripherals_store(0, 16902, 0) =>
          /\ rddiv' = 65535
          /\ rdmpy' = wrdiv]_vars

\* C16: a store of a byte to $4203 sets rdmpy to wrmpya times that byte,
\* the full 16-bit product, latching the byte in wrmpyb and keeping wrmpya;
\* loads of $4216 and $4217 return the low and the high byte of rdmpy.
C16_Multiply ==
    [][/\ \A v \in MduVals :
             Peripherals_store(0, 16899, v) =>
                /\ rdmpy' = wrmpya * v
                /\ rdmpy' < 65536
                /\ wrmpyb' = v
                /\ wrmpya' = wrmpya
       /\ Peripherals_load(0, 16918) =>
             (bus_ret' = rdmpy % 256 /\ rdmpy' = rdmpy)
       /\ Peripherals_load(0, 16919) =>
             (bus_ret' = rdmpy \div 256 /\ rdmpy' = rdmpy)]_vars

C16_Witness ==
    /\ wrmpya = 16
    /\ wrmpyb = 32
    /\ rdmpy = 512
    /\ bus_ret = 2

\* C17: a store of a non-zero byte d to $4206 sets rddiv to wrdiv / d and
\* rdmpy to wrdiv % d, so that rddiv * d + rdmpy = wrdiv and rdmpy < d, and
\* leaves wrdiv as it is.
C17_Divide ==
    [][\A d \in MduVals \ {0} :
          Peripherals_store(0, 16902, d) =>
             /\ rddiv' = wrdiv \div d
             /\ rdmpy' = wrdiv % d
             /\ rddiv' * d + rdmpy' = wrdiv
             /\ rdmpy' < d
             /\ wrdiv' = wrdiv]_vars

C17_Witness ==
    /\ wrdiv = 65535
    /\ rddiv = 2047
    /\ rdmpy = 31

(***************************************************************************)
(* The I/O cycles of the bus.                                              *)
(***************************************************************************)
\* The cycles an access adds for the DMA it starts, not for the access.
DmaPart(op) == IF IsStore(op, 16907) THEN dma_cycles(op.value) ELSE 0

\* The penalty table, as a function of the bank, the address and the
\* fastROM flag and of nothing else.
PenaltyOf(bank, addr, fast) ==
    CASE bank \in 0..63 ->
            (CASE addr \in 0..8191 \/ addr \in 24576..65535 -> 2
               [] addr \in 16384..16895 -> 6
               [] OTHER -> 0)
      [] bank \in 64..127 -> 2
      [] bank \in 128..191 ->
            (CASE addr \in 0..8191 \/ addr \in 24576..32767 -> 2
               [] addr \in 16384..16895 -> 6
               [] addr \in 32768..65535 -> (IF fast THEN 0 ELSE 2)
               [] OTHER -> 0)
      [] bank \in 192..255 -> (IF fast THEN 0 ELSE 2)

\* C18: the penalty an access is charged is a function of the bank, the
\* address and memsel alone, whatever the rest of the state; and the charge
\* changes nothing but the accrued I/O cycles: a store whose arm does
\* nothing (to the read-only PPU register $2134) leaves everything else as
\* it was.
C18_PenaltyIsPure ==
    [][/\ \A op \in BusOps :
             \/ cy' - cy = PenaltyOf(op.bank, op.addr, memsel) + DmaPart(op)
             \/ ~Peripherals_access(op)
       /\ \A b \in {0, 63, 128, 191} :
             Peripherals_store(b, 8500, 0) =>
                /\ cy' = cy + PenaltyOf(b, 8500, memsel)
                /\ UNCHANGED <<apu_vars, bus_vars, input_vars, core_vars>>
                /\ UNCHANGED <<pc, master_cy, apu_master_cy_debt,
                               ppu_master_cy_debt, cpu_master_cy,
                               frame_rendered, nmien, nmi, irq, hdmaen, htime,
                               vtime, memsel, v_counter, h_counter, ppu_cycles,
                               cpu_nmi, cpu_irq, calls, renders, render_failed,
                               wai_only>>]_vars

C18_Witness ==
    /\ cy = 8
    /\ memsel
    /\ nmien = 1
    /\ bus_ret = 0

\* C19: every load and store is charged the penalty of the table: 0, 2 or
\* 6; 6 exactly for $4000-$41ff in banks $00-$3f and $80-$bf; the fastROM
\* flag turns 2 into 0 for banks $80-$bf at $8000-$ffff and for banks
\* $c0-$ff, and makes no difference in banks $00-$7f.
C19_PenaltyTable ==
    [][\A op \in BusOps :
          ~Peripherals_access(op) \/
             LET p == cy' - cy - DmaPart(op)
                 b == op.bank
                 a == op.addr
                 low == b \in 0..63
                 high == b \in 128..191
                 fastable == (high /\ a \in 32768..65535) \/ b \in 192..255
             IN  /\ p \in {0, 2, 6}
                 /\ (p = 6) = ((low \/ high) /\ a \in 16384..16895)
                 /\ fastable => p = (IF memsel THEN 0 ELSE 2)
                 /\ b \in 64..127 => p = 2
                 /\ ((low \/ high) /\ ~fastable) =>
                       p = (CASE a \in 0..8191 -> 2
                              [] a \in 16384..16895 -> 6
                              [] a \in 24576..65535 -> 2
                              [] OTHER -> 0)]_vars

C19_Witness ==
    /\ cy = 6
    /\ ~memsel
    /\ bus_ret = 0
    /\ nmien = 0

(***************************************************************************)
(* Determinism of the scheduler.                                           *)
(***************************************************************************)
PcVals == {"idle", "cpu", "apu", "ppu"}
CpuInputs == {<<c, op>> \in CpuCycles \X SchedBusOps : c = 0 => op = NoAccess}

DrainCost(v, h, channels) ==
    IF v = 0 /\ h = 6 THEN (IF channels = 0 THEN 0 ELSE 18)
    ELSE IF v <= 224 /\ h = 278 THEN (IF channels = 0 THEN 0 ELSE 18)
    ELSE IF h = 180 THEN 40
    ELSE 0

\* C21: the cost of the event a PPU step arrives at (H-DMA set-up at
\* (0, 6), an H-DMA round at H = 278 of the lines 0..224, 40 cycles of DRAM
\* refresh at H = 180 of every line) is added to the accrued I/O cycles;
\* the next CPU step charges all of the accrued cycles in its cpu_cy and
\* leaves the counter at 0, so they are charged once; and nothing else
\* changes the counter - an SPC700 step, the return of render_frame and
\* the next call leave a pending amount as it is.
C21_DrainCyclesChargedOnce ==
    [][/\ PpuStepDone => cy' = cy + DrainCost(v_counter', h_counter', hdmaen)
       /\ \A c \in CpuCycles, op \in HdmaBusOps :
             \/ /\ cy' = 0
                /\ cpu_master_cy' =
                      Max(3, c * 6 + cy + DmaPart(op)
                             + (IF op.kind = "none" THEN 0
                                ELSE PenaltyOf(op.bank, op.addr, memsel)))
                /\ master_cy' = master_cy + cpu_master_cy'
             \/ ~CpuStep(c, op)
       /\ (pc = "idle" \/ pc = "apu") => cy' = cy]_vars

\* render_frame has returned with the cycles of a DRAM refresh and of an
\* H-DMA round still pending.
C21_Witness ==
    /\ pc = "idle"
    /\ ~render_failed
    /\ hdmaen # 0
    /\ cy >= 58

(***************************************************************************)
(* The SPC700: construction and instructions.                              *)
(***************************************************************************)
\* C22: a freshly constructed SPC700 holds the boot image in the top 64
\* bytes of its RAM and 0 in every other byte, 0 in A, X, Y, SP and PSW
\* and in the inbound mailbox, and in PC the little-endian word at $fffe,
\* which is $ffc0 as the image ends in $c0, $ff.
C22_Construction ==
    [][Spc700_new =>
          /\ \A ad \in RamAddrs :
                mem'[ad] = IF ad >= 65472 THEN IPL_ROM[ad - 65471] ELSE 0
          /\ reg_a' = 0 /\ reg_x' = 0 /\ reg_y' = 0 /\ reg_sp' = 0
          /\ reg_psw' = 0
          /\ \A p \in Ports : io_vals'[p] = 0
          /\ reg_pc' = mem'[65534] + 256 * mem'[65535]
          /\ IPL_ROM[63] = 192 /\ IPL_ROM[64] = 255
          /\ reg_pc' = 65472]_vars

\* A fresh SPC700, constructed after a program had run.
C22_Witness ==
    /\ reg_pc = 65472
    /\ reg_sp = 0
    /\ mem[ProgBase] = 0
    /\ mem[65472] = 205
    /\ mem[65471] = 0

\* C23: a load from $f0, $f1 or $fa-$fc, a store to $fd-$ff and a store
\* of anything but $0a to $f0 fault: no value is returned, nothing of the
\* state is changed, and no step follows the fault; a store of $0a to $f0
\* is accepted and changes no RAM byte.
C23_IllegalRegisterAccess ==
    [][/\ ~apu_fault
       /\ \A ad \in {240, 241, 250, 251, 252} :
             \/ /\ apu_fault'
                /\ UNCHANGED <<mem, io_vals, timers, reg_dsp_addr, ret>>
             \/ ~load(ad)
       /\ \A ad \in 253..255, v \in RegVals :
             \/ /\ apu_fault'
                /\ UNCHANGED <<mem, io_vals, timers, reg_dsp_addr, ret>>
             \/ ~store(ad, v)
       /\ \A v \in RegVals :
             \/ IF v = 10
                THEN ~apu_fault' /\ mem' = mem
                ELSE /\ apu_fault'
                     /\ UNCHANGED <<mem, io_vals, timers, reg_dsp_addr, ret>>
             \/ ~store(240, v)]_vars

\* The SPC700 has faulted after it had stored to port 0 and to the DSP
\* address register.
C23_Witness ==
    /\ apu_fault
    /\ mem[244] = 66
    /\ reg_dsp_addr = 10

\* C29: a store to the control register $f1 zeroes the inbound mailbox
\* bytes 0 and 1 if bit 4 of the value is set and the bytes 2 and 3 if bit
\* 5 is set; the other inbound bytes keep their value, and the outbound
\* mailbox in RAM $f4-$f7 is as it was.
C29_ControlClearsInbound ==
    [][\A c \in RegCtrlVals :
          \/ /\ \A p \in {0, 1} :
                   io_vals'[p] = IF (c \div 16) % 2 = 1 THEN 0 ELSE io_vals[p]
             /\ \A p \in {2, 3} :
                   io_vals'[p] = IF (c \div 32) % 2 = 1 THEN 0 ELSE io_vals[p]
             /\ \A ad \in 244..247 : mem'[ad] = mem[ad]
          \/ ~store(241, c)]_vars

\* The control write with bit 4 (and the enable bit of timer 0) has
\* cleared the inbound bytes 0 and 1 and left the bytes 2 and 3 and the
\* outbound byte 0.
C29_Witness ==
    /\ timers[0].enabled
    /\ ~timers[1].enabled
    /\ io_vals[0] = 0 /\ io_vals[1] = 0
    /\ io_vals[2] = 66 /\ io_vals[3] = 66
    /\ mem[244] = 66
    /\ ~apu_fault

\* C24: when the byte at PC is an opcode dispatch has no arm for, the step
\* of the SPC700 faults: it returns no cycle count, the timers stay as
\* they are, the scheduler's state is not touched, and no step follows.
C24_IllegalOpcodeFaults ==
    [][/\ ~apu_fault
       /\ (pc = "apu" /\ reg_pc \in RamAddrs /\ mem[reg_pc] \notin Implemented) =>
             /\ apu_fault'
             /\ ret' = ret
             /\ timers' = timers
             /\ apu_cycles' = apu_cycles
             /\ UNCHANGED snes_vars]_vars

\* The SPC700 has faulted on the opcode $ff inside a call of render_frame.
C24_Witness ==
    /\ apu_fault
    /\ pc = "apu"
    /\ mem[ProgBase] = 255
    /\ reg_pc = ProgBase + 1
    /\ master_cy > 0

\* The opcodes of the branches: the six flag branches, BBC, DBNZ, CBNE.
BranchOps == {240, 208, 176, 144, 48, 16, 254, 222} \cup {19 + 32 * k : k \in 0..7}

\* C25: a step of the SPC700 on a branch opcode returns the base cycles of
\* the opcode plus 2 and sets PC to the relative target if the branch is
\* taken, and returns the base cycles and leaves PC behind the
\* instruction if not (for the six flag branches, taken means the flag
\* condition of the opcode holds); the three timers advance by the count
\* returned (a timer output that CBNE has read as its operand through
\* $fd-$ff advances from 0).
C25_BranchCycles ==
    [][(/\ pc = "apu" /\ ~apu_fault /\ ~apu_fault'
        /\ reg_pc = ProgBase /\ mem[ProgBase] \in BranchOps) =>
          LET op == mem[ProgBase]
              len == IF op \in {222} \cup {19 + 32 * k : k \in 0..7} THEN 3 ELSE 2
              after == ProgBase + len
              r == mem[after - 1]
              target == after + (IF r >= 128 THEN r - 256 ELSE r)
              base == CYCLE_TABLE[op + 1]
              n == ret'.val
              flag(f) == (reg_psw \div f) % 2 = 1
              ptr == (IF flag(32) THEN 256 ELSE 0) + ((mem[ProgBase + 1] + reg_x) % 256)
              read(i) == op = 222 /\ mem[ptr + 1] * 256 + mem[ptr] = 253 + i
          IN  /\ ret'.by = "dispatch"
              /\ \E taken \in BOOLEAN :
                    /\ op = 240 => taken = flag(2)
                    /\ op = 208 => taken = ~flag(2)
                    /\ op = 176 => taken = flag(1)
                    /\ op = 144 => taken = ~flag(1)
                    /\ op = 48 => taken = flag(128)
                    /\ op = 16 => taken = ~flag(128)
                    /\ n = IF taken THEN base + 2 ELSE base
                    /\ reg_pc' = IF taken THEN target ELSE after
              /\ \A i \in TimerIds :
                    timers'[i] =
                       Timer_update(IF read(i) THEN [timers[i] EXCEPT !.val = 0]
                                    ELSE timers[i],
                                    IF i = 2 THEN 16 ELSE 128, n)]_vars

\* A BBC has been taken, back to itself: 5 + 2 cycles, and timer 2 has
\* counted them.
C25_Witness ==
    /\ ret = Returned("dispatch", 7)
    /\ mem[ProgBase] \in BbcOps
    /\ reg_pc = ProgBase
    /\ timers[2].val > 0
    /\ ~apu_fault

\* A step of dispatch that has returned on the instruction at $200.
AluStepOf(ops) ==
    /\ reg_pc = ProgBase
    /\ mem[ProgBase] \in ops
    /\ ~apu_fault
    /\ ret'.by = "dispatch"

\* The direct-page address of the operand byte d.
DpOperand(d) == (IF (reg_psw \div 32) % 2 = 1 THEN 256 ELSE 0) + d

\* Bit `flag` of the status byte s.
Flag(s, flag) == (s \div flag) % 2 = 1

\* C26: CMP with the operands a and b (a the first addressing mode of the
\* opcode, b the second) sets N and Z from (a - b) mod 256 and C to bit 7
\* of it, keeps every other bit of PSW, and changes neither operand:
\* registers and RAM are as they were.
C26_Cmp ==
    [][AluStepOf({104, 100, 120}) =>
          LET op == mem[ProgBase]
              a == CASE op = 104 -> mem[ProgBase + 1]
                     [] op = 100 -> mem[DpOperand(mem[ProgBase + 1])]
                     [] op = 120 -> mem[ProgBase + 1]
              b == CASE op = 120 -> mem[DpOperand(mem[ProgBase + 2])]
                     [] OTHER -> reg_a
              diff == (a - b + 256) % 256
          IN  /\ Flag(reg_psw', 128) = (diff >= 128)
              /\ Flag(reg_psw', 2) = (diff = 0)
              /\ Flag(reg_psw', 1) = ((diff \div 128) % 2 = 1)
              /\ \A f \in {4, 8, 16, 32, 64} : Flag(reg_psw', f) = Flag(reg_psw, f)
              /\ UNCHANGED <<mem, reg_a, reg_x, reg_y, reg_sp, io_vals>>]_vars

\* CMP of #$7f and the direct byte $80 has set N and C (the difference is
\* $ff) and kept V, H and bit 2 of PSW.
C26_Witness ==
    /\ mem[ProgBase] = 120
    /\ mem[ProgBase + 1] = 127
    /\ mem[16] = 128
    /\ reg_pc = ProgBase + 3
    /\ reg_psw = 76 + 128 + 1
    /\ ret = Returned("dispatch", 5)

\* C27: ADC with the destination a, the source b and the carry c stores
\* (a + b + c) mod 256 to the destination and sets C iff a + b + c > 255,
\* V iff a and b have the same sign and the result the other one, H iff
\* (a & 15) + (b & 15) + c carries out of bit 3, and N and Z from the
\* result.
C27_Adc ==
    [][AluStepOf({136, 132}) =>
          LET op == mem[ProgBase]
              a == reg_a
              b == IF op = 136 THEN mem[ProgBase + 1]
                   ELSE mem[DpOperand(mem[ProgBase + 1])]
              c == IF Flag(reg_psw, 1) THEN 1 ELSE 0
              res == (a + b + c) % 256
          IN  /\ reg_a' = res
              /\ Flag(reg_psw', 1) = (a + b + c > 255)
              /\ Flag(reg_psw', 64) =
                    \/ a < 128 /\ b < 128 /\ res >= 128
                    \/ a >= 128 /\ b >= 128 /\ res < 128
              /\ Flag(reg_psw', 8) = ((a % 16) + (b % 16) + c > 15)
              /\ Flag(reg_psw', 128) = (res >= 128)
              /\ Flag(reg_psw', 2) = (res = 0)]_vars

\* ADC #$01 to A = $7f without carry has left A = $80 with N, V and H set
\* and C and Z clear.
C27_Witness ==
    /\ mem[ProgBase] = 136
    /\ mem[ProgBase + 1] = 1
    /\ reg_a = 128
    /\ reg_psw = 128 + 64 + 8
    /\ reg_pc = ProgBase + 2
    /\ ret = Returned("dispatch", 2)

\* C28 (as stated): ROR on the direct-page byte v with the carry c leaves
\* (v >> 1) | (c << 7) in the byte, the old bit 0 of v in C, and N and Z
\* of the stored value.
C28_RorStoresResult ==
    [][AluStepOf({107}) =>
          LET d == DpOperand(mem[ProgBase + 1])
              v == mem[d]
              res == (v \div 2) + (IF Flag(reg_psw, 1) THEN 128 ELSE 0)
          IN  /\ mem'[d] = res
              /\ Flag(reg_psw', 1) = (v % 2 = 1)
              /\ Flag(reg_psw', 128) = (res >= 128)
              /\ Flag(reg_psw', 2) = (res = 0)]_vars

\* The banks that mirror the first 8 KiB of the work RAM, and bank $7e.
MirrorBanks == (0..63) \cup (128..191) \cup {126}

\* The bytes of the work RAM past the mirror that are not 0 in w, and
\* those of the mirror.
Unmirrored(w) == {i \in DOMAIN w : i >= 8192}
Mirrored(w) == {i \in DOMAIN w : i < 8192}

\* C30: in every state a load of an offset below $2000 returns the same
\* byte in every system bank and in bank $7e, the byte of the work RAM at
\* that offset; a store to such an offset in any of these banks puts its
\* value there, and a load there returns it and changes nothing; an access
\* that is neither to bank $7e or $7f nor to the port $2180 leaves every
\* byte of the work RAM from index $2000 on as it was, and a store to bank
\* $7f or to bank $7e from $2000 on leaves the mirrored bytes as they were.
\* (The first two disjuncts of the step formula follow from the third.)
C30_WramMirrored ==
    /\ [](\A a \in Mirrored(wram) \cup {0, 8191} : \A b \in MirrorBanks :
              load_byte(b, a) = wram_get(wram, a))
    /\ [][\A op \in WramOps :
          \/ wram' # bus_wram(op)
          \/ bus_ret' # bus_value(op)
          \/ ~Peripherals_access(op)
          \/ /\ (op.kind = "store" /\ op.bank \in MirrorBanks /\ op.addr < 8192) =>
                    load_byte(op.bank, op.addr)' = op.value
             /\ (op.kind = "load" /\ op.bank \in MirrorBanks /\ op.addr < 8192) =>
                    /\ bus_ret' = wram_get(wram, op.addr)
                    /\ wram' = wram
             /\ (op.bank \notin {126, 127} /\ ~IsWramPort(op)) =>
                    /\ Unmirrored(wram') = Unmirrored(wram)
                    /\ \A i \in Unmirrored(wram) : wram'[i] = wram[i]
             /\ (op.bank = 127 \/ (op.bank = 126 /\ op.addr >= 8192)) =>
                    /\ Mirrored(wram') = Mirrored(wram)
                    /\ \A i \in Mirrored(wram) : wram'[i] = wram[i]]_vars

\* The byte $55 is at the mirrored offset $1fff and was the last byte
\* loaded, two accesses into the instruction, while bank $7f holds $55 at
\* $2000 and bank $7e holds 0 there.
C30_Witness ==
    /\ wram_get(wram, 8191) = 85
    /\ bus_ret = 85
    /\ cy = 4
    /\ wram_get(wram, 73728) = 85
    /\ wram_get(wram, 8192) = 0

\* C31: the address of the port is below $20000 and every byte of the work
\* RAM that is not 0 lies below $20000, in every state; a load from $2180
\* returns the byte at the address WMADDH bit 0, WMADDM, WMADDL form and
\* leaves the work RAM alone, a store to $2180 puts its value there and
\* nowhere else, and either leaves the address one higher modulo $20000;
\* a store to $2183 keeps bit 0 of its value.
C31_WramPort ==
    /\ [](/\ wram_addr < WRAM_SIZE
          /\ \A i \in DOMAIN wram : i \in 0..(WRAM_SIZE - 1))
    /\ [][\A op \in PortOps :
          \/ ~Peripherals_access(op)
          \/ LET at == (wmaddh % 2) * 65536 + wmaddm * 256 + wmaddl
                 next == wmaddh' * 65536 + wmaddm' * 256 + wmaddl'
             IN  /\ (op.kind = "load" /\ op.addr = 8576) =>
                        /\ bus_ret' = wram_get(wram, at)
                        /\ wram' = wram
                        /\ next = (at + 1) % 131072
                 /\ (op.kind = "store" /\ op.addr = 8576) =>
                        /\ wram_get(wram', at) = op.value
                        /\ \A i \in (DOMAIN wram \cup DOMAIN wram') \ {at} :
                                wram_get(wram', i) = wram_get(wram, i)
                        /\ next = (at + 1) % 131072
                 /\ (op.kind = "store" /\ op.addr = 8579) =>
                        /\ wmaddh' = op.value % 2
                        /\ wmaddl' = wmaddl /\ wmaddm' = wmaddm]_vars

\* A store through the port has put $55 into the last byte of the work RAM
\* and the address has gone round to 0.
C31_Witness ==
    /\ wram_get(wram, 131071) = 85
    /\ wmaddl = 0 /\ wmaddm = 0 /\ wmaddh = 0
    /\ bus_ret = -1

\* C32 (as stated): in every state a store to an address from $6000 on in
\* a system bank is an access the bus takes: it is not the invalid store
\* that ends the emulator.
C32_CartridgeStores ==
    \A op \in BusStores :
        (SysBank(op.bank) /\ op.addr >= 24576) =>
            /\ ~bus_panics(op)
            /\ ENABLED Peripherals_access(op)

(***************************************************************************)
(* The drain loops of a pass.                                              *)
(***************************************************************************)
\* C33: the SPC700 is about to step (the loop stands at the body of the
\* APU drain loop) exactly when apu_debt is above 21, so it steps only
\* then and the loop is left with apu_debt at most 21; the body is reached
\* from the CPU step of the pass or from the body itself, never from a
\* PPU step; apu_debt goes down, and the SPC700's cycles go up, only at a
\* step taken there, which lowers apu_debt by 21 times its cycles.
C33_ApuDrain ==
    /\ []((pc = "apu") <=> (apu_master_cy_debt > 21))
    /\ [][/\ (pc' = "apu") => (pc \in {"cpu", "apu"})
          /\ (apu_cycles' # apu_cycles \/ apu_master_cy_debt' < apu_master_cy_debt) =>
                /\ pc = "apu"
                /\ apu_master_cy_debt > 21
                /\ apu_cycles' > apu_cycles
                /\ apu_master_cy_debt' =
                        apu_master_cy_debt - 21 * (apu_cycles' - apu_cycles)
                /\ ppu_master_cy_debt' = ppu_master_cy_debt
                /\ master_cy' = master_cy
                /\ ppu_cycles' = ppu_cycles]_vars

\* The SPC700 has run 2 cycles in all, which took apu_debt from 24 to -18,
\* and the PPU drain loop comes next.
C33_Witness ==
    /\ apu_cycles = 2
    /\ apu_master_cy_debt = -18
    /\ pc = "ppu"

\* C34: the PPU is about to step (the loop stands at the body of the PPU
\* drain loop) only when ppu_debt is above 0; ppu_debt goes down, and the
\* PPU's cycles go up, only at a step taken there, which lowers ppu_debt
\* by its cycles; a PPU step that raises neither the NMI nor the IRQ and
\* ends the pass leaves ppu_debt at 0 or below; and whenever a CPU step
\* comes next with ppu_debt above 0, the pass before has raised one.
C34_PpuDrain ==
    /\ []((pc = "ppu") => (ppu_master_cy_debt > 0))
    /\ []((pc = "cpu" /\ ppu_master_cy_debt > 0) => (cpu_nmi \/ cpu_irq))
    /\ [][/\ (ppu_cycles' # ppu_cycles \/ ppu_master_cy_debt' < ppu_master_cy_debt) =>
                /\ pc = "ppu"
                /\ ppu_master_cy_debt > 0
                /\ ppu_cycles' > ppu_cycles
                /\ ppu_master_cy_debt' =
                        ppu_master_cy_debt - (ppu_cycles' - ppu_cycles)
          /\ (pc = "ppu" /\ pc' \in {"cpu", "idle"} /\ ~render_failed'
                /\ ~cpu_nmi' /\ ~cpu_irq') =>
                ppu_master_cy_debt' <= 0]_vars

\* The H-IRQ has ended the PPU drain loop while the PPU is still owed
\* cycles, and the CPU step comes next.
C34_Witness ==
    /\ pc = "cpu"
    /\ ppu_master_cy_debt > 0
    /\ cpu_irq
    /\ ~cpu_nmi

\* C35: in every state ppu_debt is master_cy less the cycles of all PPU
\* steps and apu_debt is master_cy less 21 times the cycles of all SPC700
\* steps; master_cy changes only at a CPU step, where it grows by the
\* cycles charged for the step, which are at least 3.
C35_CycleConservation ==
    /\ [](/\ ppu_master_cy_debt = master_cy - ppu_cycles
          /\ apu_master_cy_debt = master_cy - 21 * apu_cycles)
    /\ [][(master_cy' # master_cy) =>
                /\ pc = "cpu"
                /\ cpu_master_cy' >= 3
                /\ master_cy' = master_cy + cpu_master_cy']_vars

\* render_frame has returned a rendered frame with the IRQ flag up, the
\* PPU ahead of the CPU and the SPC700 stepped, and was called again.
C35_Witness ==
    /\ pc = "cpu"
    /\ irq
    /\ renders = 0
    /\ master_cy > 100
    /\ ppu_master_cy_debt < 0
    /\ apu_cycles > 0
    /\ v_counter >= 224

\* C36: every PPU step that does not end in the error of the render
\* closure does what the event table says for the coordinates it arrives
\* at, whether or not the counter-match check then leaves the loop: the
\* calls of the event are made, its cycles are accrued, and the NMI flag is
\* set at (225, 0) and cleared at (0, 0); a step that arrives at (224, 256)
\* calls the render closure; and a step that arrives there with the V-IRQ
\* enabled and vtime = 224 has rendered the frame, raised the IRQ and ended
\* the pass with the return of render_frame.
C36_EventsBeforeIrq ==
    [][\A c \in PpuCycles, ok \in RenderResults :
          \/ ~PpuStep(c, ok)
          \/ LET v == v_counter'
                 h == h_counter'
             IN  /\ (v = 224 /\ h = 256) =>
                        /\ renders' = renders + 1
                        /\ "render" \in calls'
                 /\ ~render_failed' =>
                        /\ (v = 0 /\ h = 6) => "init_hdma" \in calls'
                        /\ (v <= 224 /\ h = 278) => "do_hdma" \in calls'
                        /\ (v = 225 /\ h = 0) => ("new_frame" \in calls' /\ nmi')
                        /\ (v = 0 /\ h = 0) => ~nmi'
                        /\ cy' = cy + DrainCost(v, h, hdmaen)
                 /\ (v = 224 /\ h = 256 /\ ok /\ vtime = 224 /\ TestBit(nmien, 16)) =>
                        /\ frame_rendered'
                        /\ irq' /\ cpu_irq'
                        /\ "trigger_irq" \in calls'
                        /\ pc' = "idle"
                        /\ ~render_failed']_vars

\* render_frame has returned the frame it rendered on a step that raised
\* the V-IRQ of scanline 224: the PPU stands at (224, 256), still owed
\* cycles.
C36_Witness ==
    /\ pc = "idle"
    /\ v_counter = 224 /\ h_counter = 256
    /\ vtime = 224
    /\ frame_rendered /\ renders = 1
    /\ irq /\ cpu_irq
    /\ calls = {"render", "trigger_irq"}
    /\ ppu_master_cy_debt > 0

\* C37: a PPU step that arrives at (225, 0) leaves nmi_pending set, with
\* the NMI enabled or not; nmi_pending falls only at a PPU step that
\* arrives at (0, 0) or at a CPU step that loads $4210, and it rises only
\* at (225, 0); a step that arrives at (225, 0) with the NMI disabled
\* raises no NMI and stays in the PPU drain loop while the PPU is owed
\* cycles.
C37_NmiPendingFollowsFrame ==
    [][/\ (pc = "ppu" /\ v_counter' = 225 /\ h_counter' = 0) => nmi'
       /\ (nmi /\ ~nmi') =>
             \/ pc = "ppu" /\ v_counter' = 0 /\ h_counter' = 0
             \/ \E c \in CpuCycles : CpuStep(c, BusLoad(0, 16912))
       /\ (~nmi /\ nmi') => (pc = "ppu" /\ v_counter' = 225 /\ h_counter' = 0)
       /\ (pc = "ppu" /\ v_counter' = 225 /\ h_counter' = 0
                /\ ~TestBit(nmien, 128)) =>
             /\ "trigger_nmi" \notin calls'
             /\ ~cpu_nmi'
             /\ ppu_master_cy_debt' > 0 => pc' = "ppu"]_vars

\* The PPU stands at (225, 0) with the NMI disabled: nmi_pending is set,
\* no NMI was raised, and the PPU drain loop goes on.
C37_Witness ==
    /\ v_counter = 225 /\ h_counter = 0
    /\ nmi
    /\ ~TestBit(nmien, 128)
    /\ ~cpu_nmi
    /\ calls = {"new_frame"}
    /\ pc = "ppu"

\* C38 (as stated): BBC on bit n of the direct-page byte v (opcode
\* $13 + $20 * n) sets PC to the relative target and takes 2 cycles more
\* exactly when bit n of v is 0, and falls through to the next instruction
\* when it is 1.
C38_BbcBranchesIfClear ==
    [][(/\ pc = "apu" /\ ~apu_fault /\ ~apu_fault'
        /\ reg_pc = ProgBase
        /\ mem[ProgBase] \in {19 + 32 * n : n \in 0..7}
        /\ mem[ProgBase + 1] = 16) =>
          LET n == (mem[ProgBase] - 19) \div 32
              v == mem[DpOperand(16)]
              clear == (v \div (2 ^ n)) % 2 = 0
              r == mem[ProgBase + 2]
              after == ProgBase + 3
              target == after + (IF r >= 128 THEN r - 256 ELSE r)
          IN  /\ reg_pc' = IF clear THEN target ELSE after
              /\ ret' = Returned("dispatch", IF clear THEN 7 ELSE 5)]_vars

(***************************************************************************)
(* The stack of the SPC700.                                                *)
(***************************************************************************)
\* The instruction at PC has run to its end without a panic.
StackStep(ops) ==
    /\ mem[reg_pc] \in ops
    /\ ~apu_fault /\ ~apu_fault'
    /\ apu_cycles' # apu_cycles

\* The register a push instruction pushes.
Pushed(op) ==
    CASE op = PushA -> reg_a
      [] op = PushX -> reg_x
      [] op = PushY -> reg_y

StackDown(sp, n) == (sp + 256 - n) % 256
StackUp(sp, n) == (sp + n) % 256

\* C39: the stack lives in page 1.  A push stores the byte at $0100 | SP
\* and then decrements SP; a pop increments SP and then loads from
\* $0100 | SP; CALL pushes the high byte of the return address first (at
\* SP) and the low byte second (at SP - 1), RET pops the low byte first.
\* Hence PUSH r; POP Y leaves r in Y with SP as it was, and CALL followed
\* by RET resumes behind the CALL with SP as it was.
C39_StackPage1 ==
    /\ [](/\ ( /\ reg_pc = ProgBase + 2 /\ ~apu_fault
               /\ mem[ProgBase] \in {PushA, PushX, PushY}
               /\ mem[ProgBase + 1] = PopY )
             => ( /\ reg_sp = reg_x
                  /\ reg_y = CASE mem[ProgBase] = PushA -> reg_a
                               [] mem[ProgBase] = PushX -> reg_x
                               [] OTHER -> reg_y
                  /\ reg_y = mem[256 + reg_sp] )
          /\ ( /\ mem[ProgBase] = CallAbs /\ ~apu_fault
               /\ apu_cycles = CYCLE_TABLE[CallAbs + 1] + CYCLE_TABLE[Ret + 1] )
             => ( /\ reg_pc = ProgBase + 3
                  /\ reg_sp = reg_x ))
    /\ [][ /\ StackStep({PushA, PushX, PushY})
              => /\ mem' = [mem EXCEPT ![256 + reg_sp] = Pushed(mem[reg_pc])]
                 /\ reg_sp' = StackDown(reg_sp, 1)
                 /\ reg_pc' = reg_pc + 1
           /\ StackStep({PopY})
              => /\ reg_sp' = StackUp(reg_sp, 1)
                 /\ reg_y' = mem[256 + reg_sp']
                 /\ mem' = mem
                 /\ reg_pc' = reg_pc + 1
           /\ StackStep({CallAbs})
              => /\ mem' = [mem EXCEPT
                              ![256 + reg_sp] = (reg_pc + 3) \div 256,
                              ![256 + StackDown(reg_sp, 1)] = (reg_pc + 3) % 256]
                 /\ reg_sp' = StackDown(reg_sp, 2)
                 /\ reg_pc' = mem[reg_pc + 2] * 256 + mem[reg_pc + 1]
           /\ StackStep({Ret})
              => /\ reg_pc' = mem[256 + StackUp(reg_sp, 2)] * 256
                                + mem[256 + StackUp(reg_sp, 1)]
                 /\ reg_sp' = StackUp(reg_sp, 2)
                 /\ mem' = mem ]_vars

\* CALL $0010 at SP = 0 and the RET at $10 have run: the return address
\* $0203 lies at $100 (high) and $1ff (low), and SP is 0 again.
C39_Witness ==
    /\ mem[ProgBase] = CallAbs
    /\ ~apu_fault
    /\ reg_pc = ProgBase + 3
    /\ apu_cycles = 13
    /\ reg_x = 0 /\ reg_sp = 0
    /\ mem[256] = 2 /\ mem[511] = 3

(***************************************************************************)
(* The modes of the controller input.                                      *)
(***************************************************************************)
\* C40: the input is never recording and replaying at once; its mode only
\* moves from Normal to Recorded, by start_recording, or from Normal to
\* Replayed, by start_replay; either call made while recording or
\* replaying panics and leaves the mode alone; nothing returns the mode to
\* Normal.
C40_InputModes ==
    /\ [](~(is_recording(input_mode) /\ is_replaying(input_mode)))
    /\ [][ /\ input_mode'.kind # input_mode.kind
              => /\ input_mode.kind = "Normal"
                 /\ \/ input_mode'.kind = "Recorded" /\ Input_start_recording
                    \/ input_mode'.kind = "Replayed" /\ Input_start_replay
                 /\ input_fault' = ""
           /\ ( /\ input_mode.kind # "Normal"
                /\ Input_start_recording \/ Input_start_replay )
              => /\ input_fault' # ""
                 /\ input_mode' = input_mode
           /\ input_mode'.kind = "Normal" => input_mode.kind = "Normal" ]_vars

\* start_recording was called a second time: it has panicked, and the
\* input is still recording, with its ports.
C40_Witness ==
    /\ input_fault = "already recording"
    /\ input_mode = Recorded(<<TRUE, FALSE>>)
====
